---------------------------- MODULE Spec2Model ----------------------------
(***************************************************************************)
(* Model of the document reconciliation engine of Neuroarti:               *)
(*   core/utils.py  apply_diff_patch, isolate_and_clean_html, ip_limiter   *)
(*   core/utils.py  extract_assets, over a model of the tree that          *)
(*                  BeautifulSoup's html.parser builds                     *)
(*   main.py        build_or_full_update, rewrite_element_endpoint         *)
(*                                                                         *)
(* Text is a sequence of symbols.  A symbol is one character ("a", " ",    *)
(* "\n") or one whole token that the code's regular expressions treat as   *)
(* a unit (the three patch sentinels, "<!DOCTYPE html>", "<html", "<div",  *)
(* ...).  Python's 0-based offsets become 1-based indices, and "not found" *)
(* is 0.                                                                   *)
(***************************************************************************)
EXTENDS Integers, Sequences, FiniteSets, TLC

VARIABLES
    html,                 \* the document a caller passes to apply_diff_patch (body.html)
    patch_instructions,   \* the oracle's patch text passed with it
    updated_full_html,    \* apply_diff_patch(html, patch_instructions)
    repatched_full_html,  \* apply_diff_patch(updated_full_html, patch_instructions)
    patch_pc,             \* "call", "returned", "reapplied"
    raw_text,             \* the text a caller passes to isolate_and_clean_html
    isolated_html,        \* isolate_and_clean_html(raw_text)
    reisolated_html,      \* isolate_and_clean_html(isolated_html)
    isolate_pc,           \* "call", "returned", "reisolated"
    ip_address_map,       \* core/utils.py: the requests counted for each IP
    request,              \* main.py: the request handled last
    oracle,               \* main.py: generate_code for it: "not called", "failed", "answered"
    marked_full_html,     \* main.py: the document sent to the oracle with it
    ai_response_text,     \* main.py: what the oracle answered to it
    clean_html_doc,       \* main.py: isolate_and_clean_html(ai_response_text)
    split_container_id,   \* main.py: the container id passed to extract_assets for it
    response,             \* main.py: the response to it
    full_html,            \* the document a caller passes to extract_assets
    assets_container_id,  \* the container id passed with it
    parse_raises,         \* whether the parse of that document raises
    assets,               \* extract_assets(full_html, assets_container_id)
    assets_pc,            \* "call", "returned"
    element_request,      \* app.py, core/element_rewriter.py: the element edit that arrived
    element_oracle,       \* what the oracle answered to it
    element_cleaned,      \* that answer as the code cleaned it
    element_response,     \* the response to it, once it is handled
    limiter_ip,           \* the ip of the last call of ip_limiter
    admitted,             \* what that call returned
    limiter_calls         \* for each IP, the calls of ip_limiter made with it so far

patch_vars == <<html, patch_instructions, updated_full_html, repatched_full_html, patch_pc>>
isolate_vars == <<raw_text, isolated_html, reisolated_html, isolate_pc>>
server_vars ==
    <<ip_address_map, request, oracle, marked_full_html, ai_response_text, clean_html_doc,
      split_container_id, response>>
assets_vars == <<full_html, assets_container_id, parse_raises, assets, assets_pc>>
element_vars == <<element_request, element_oracle, element_cleaned, element_response>>
limiter_vars == <<limiter_ip, admitted, limiter_calls>>
vars == <<patch_vars, isolate_vars, server_vars, assets_vars, element_vars, limiter_vars>>

-----------------------------------------------------------------------------
(* Protocol constants, core/prompts.py *)

SEARCH_START == "<<<<<<< SEARCH"
DIVIDER == "======="
REPLACE_END == ">>>>>>> REPLACE"

NL == "\n"

\* the characters str.strip() removes
WHITESPACE == {" ", NL, "\t", "\r"}

-----------------------------------------------------------------------------
(* Python string primitives *)

Min(S) == CHOOSE x \in S : \A y \in S : x <= y

\* text.find(sub, start): the least index >= start at which sub occurs, 0 if none
find(text, sub, start) ==
    LET hits == {i \in start..(Len(text) - Len(sub) + 1) :
                    SubSeq(text, i, i + Len(sub) - 1) = sub}
    IN IF hits = {} THEN 0 ELSE Min(hits)

\* sub in text
contains(text, sub) == find(text, sub, 1) # 0

RECURSIVE lstrip(_, _)
lstrip(text, chars) ==
    IF text # <<>> /\ Head(text) \in chars THEN lstrip(Tail(text), chars) ELSE text

RECURSIVE rstrip(_, _)
rstrip(text, chars) ==
    IF text # <<>> /\ text[Len(text)] \in chars
    THEN rstrip(SubSeq(text, 1, Len(text) - 1), chars)
    ELSE text

\* text.strip(chars)
strip(text, chars) == rstrip(lstrip(text, chars), chars)

\* replace_first with a fault: every occurrence is replaced (str.replace without count)
RECURSIVE replace_all(_, _, _)
replace_all(text, old, new) ==
    LET i == find(text, old, 1)
    IN IF i = 0 \/ old = <<>> THEN text
       ELSE SubSeq(text, 1, i - 1) \o new
            \o replace_all(SubSeq(text, i + Len(old), Len(text)), old, new)

\* text.replace(old, new, 1)
replace_first(text, old, new) ==
    LET i == find(text, old, 1)
    IN IF i = 0 THEN text
       ELSE SubSeq(text, 1, i - 1) \o new \o SubSeq(text, i + Len(old), Len(text))

\* reversed with a fault: the sequence in its own order
not_reversed(seq) == seq

\* reversed(seq)
reversed(seq) == [i \in 1..Len(seq) |-> seq[Len(seq) + 1 - i]]

-----------------------------------------------------------------------------
(* core/utils.py, apply_diff_patch *)

NoMatch == [start |-> 0, group1 |-> <<>>, group2 |-> <<>>, end |-> 0]

\* pattern.search(ai_response, pos) for the pattern of line 33,
\*   SEARCH_START (.*?) DIVIDER (.*?) REPLACE_END   with re.DOTALL:
\* the leftmost SEARCH_START at or after pos from which the whole pattern can
\* match; each lazy group ends at the first sentinel that lets the rest match.
pattern_search(ai_response, pos) ==
    LET n == Len(ai_response)
        ends(j) == {k \in (j + 1)..n : ai_response[k] = REPLACE_END}
        dividers(i) == {j \in (i + 1)..n : ai_response[j] = DIVIDER /\ ends(j) # {}}
        starts == {i \in pos..n : ai_response[i] = SEARCH_START /\ dividers(i) # {}}
    IN IF starts = {} THEN NoMatch
       ELSE LET i == Min(starts)
                j == Min(dividers(i))
                k == Min(ends(j))
            IN [start |-> i,
                group1 |-> SubSeq(ai_response, i + 1, j - 1),
                group2 |-> SubSeq(ai_response, j + 1, k - 1),
                end |-> k]

\* list(pattern.finditer(ai_response)), scanning from pos: the matches, left to
\* right, none overlapping
RECURSIVE finditer(_, _)
finditer(ai_response, pos) ==
    LET m == pattern_search(ai_response, pos)
    IN IF m.start = 0 THEN <<>>
       ELSE <<m>> \o finditer(ai_response, m.end + 1)

\* search_block_of with a fault: the search text is trimmed of all whitespace
search_block_trimmed(match) == strip(match.group1, WHITESPACE)

\* lines 43-45: the search and replace text of a match, stripped of the
\* newlines around them
search_block_of(match) == strip(match.group1, {NL})
replace_block_of(match) == strip(match.group2, {NL})

\* is_insertion with a fault: only the empty search text inserts
is_empty_search(search_block) == search_block = <<>>

\* line 47: search_block.strip() == ""
is_insertion(search_block) == strip(search_block, WHITESPACE) = <<>>

\* line 50: search_block in modified_html
block_matches(modified_html, search_block) == contains(modified_html, search_block)

\* apply_block with a fault: a block that is not found is appended
apply_block_append(modified_html, match) ==
    LET search_block == search_block_of(match)
        replace_block == replace_block_of(match)
    IN IF is_insertion(search_block) THEN replace_block \o <<NL>> \o modified_html
       ELSE IF block_matches(modified_html, search_block)
            THEN replace_first(modified_html, search_block, replace_block)
            ELSE modified_html \o replace_block

\* lines 43-53: the body of the loop, one block applied to the running result
apply_block(modified_html, match) ==
    LET search_block == search_block_of(match)
        replace_block == replace_block_of(match)
    IN IF is_insertion(search_block) THEN replace_block \o <<NL>> \o modified_html
       ELSE IF block_matches(modified_html, search_block)
            THEN replace_first(modified_html, search_block, replace_block)
            ELSE modified_html

\* apply_matches with a fault: the loop gives up at the first block it cannot find
RECURSIVE apply_matches_abort(_, _)
apply_matches_abort(modified_html, matches) ==
    IF matches = <<>> THEN modified_html
    ELSE IF ~is_insertion(search_block_of(Head(matches)))
            /\ ~block_matches(modified_html, search_block_of(Head(matches)))
         THEN modified_html
         ELSE apply_matches_abort(apply_block(modified_html, Head(matches)), Tail(matches))

\* lines 42-53: the loop over the matches it is given, in their order
RECURSIVE apply_matches(_, _)
apply_matches(modified_html, matches) ==
    IF matches = <<>> THEN modified_html
    ELSE apply_matches(apply_block(modified_html, Head(matches)), Tail(matches))

\* apply_diff_patch with a fault: a response without a complete block blanks the page
apply_diff_patch_blank(original_html, ai_response) ==
    LET matches == finditer(ai_response, 1)
    IN IF matches = <<>> THEN <<>>
       ELSE apply_matches(original_html, reversed(matches))

\* lines 26-55
apply_diff_patch(original_html, ai_response) ==
    IF ai_response = <<>> \/ ~contains(ai_response, <<SEARCH_START>>)
    THEN original_html
    ELSE LET matches == finditer(ai_response, 1)
         IN IF matches = <<>> THEN original_html
            ELSE apply_matches(original_html, reversed(matches))

-----------------------------------------------------------------------------
(* core/utils.py, isolate_and_clean_html *)

DOCTYPE == "<!DOCTYPE html>"

\* re.IGNORECASE: the lower-case form of a symbol
lower(sym) ==
    CASE sym = "<!DOCTYPE html>" -> "<!doctype html>"
      [] sym = "<HTML" -> "<html"
      [] sym = "<DIV" -> "<div"
      [] sym = "<BODY" -> "<body"
      [] OTHER -> sym

\* the alternatives of the pattern of line 70
FALLBACK_TAGS == {"<div", "<section", "<header", "<main", "<body"}

\* the text a pattern sees at the start of a symbol that is a whole start tag
tag_start(sym) ==
    CASE sym = "<html>" -> "<html"
      [] sym = "<body>" -> "<body"
      [] sym = "<div>" -> "<div"
      [] sym = "<div id=\"c1\">" -> "<div"
      [] OTHER -> sym

\* re.search(pattern, raw_text, re.IGNORECASE).start() for a pattern that is one
\* of the tokens: the leftmost position where one of them stands, whatever its
\* case; 0 if there is none
re_search(tokens, raw) ==
    LET hits == {i \in 1..Len(raw) :
                    lower(tag_start(raw[i])) \in {lower(t) : t \in tokens}}
    IN IF hits = {} THEN 0 ELSE Min(hits)

\* raw_text[start:]
from_position(raw, start) == SubSeq(raw, start, Len(raw))

\* isolate_and_clean_html with a fault: the html tag is looked for before the
\* document-type declaration
isolate_html_first(raw) ==
    IF raw = <<>> THEN <<>>
    ELSE IF re_search({"<html"}, raw) # 0
         THEN from_position(raw, re_search({"<html"}, raw))
    ELSE IF re_search({DOCTYPE}, raw) # 0
         THEN from_position(raw, re_search({DOCTYPE}, raw))
    ELSE IF re_search(FALLBACK_TAGS, raw) # 0
         THEN from_position(raw, re_search(FALLBACK_TAGS, raw))
    ELSE <<>>

\* isolate_and_clean_html with a fault: the text is cut after the marker, not before it
isolate_after_marker(raw) ==
    IF raw = <<>> THEN <<>>
    ELSE IF re_search({DOCTYPE}, raw) # 0
         THEN from_position(raw, re_search({DOCTYPE}, raw) + 1)
    ELSE IF re_search({"<html"}, raw) # 0
         THEN from_position(raw, re_search({"<html"}, raw) + 1)
    ELSE IF re_search(FALLBACK_TAGS, raw) # 0
         THEN from_position(raw, re_search(FALLBACK_TAGS, raw) + 1)
    ELSE <<>>

\* isolate_and_clean_html with a fault: a text without any marker is passed through
isolate_passthrough(raw) ==
    IF raw = <<>> THEN <<>>
    ELSE IF re_search({DOCTYPE}, raw) # 0
         THEN from_position(raw, re_search({DOCTYPE}, raw))
    ELSE IF re_search({"<html"}, raw) # 0
         THEN from_position(raw, re_search({"<html"}, raw))
    ELSE IF re_search(FALLBACK_TAGS, raw) # 0
         THEN from_position(raw, re_search(FALLBACK_TAGS, raw))
    ELSE raw

\* isolate_and_clean_html with a fault: the text is cut before the first line
\* of three backticks that follows the marker
isolate_fence_interior(raw) ==
    LET cut(text) ==
            IF \E i \in 1..Len(text) : text[i] = "~~~"
            THEN SubSeq(text, 1, Min({i \in 1..Len(text) : text[i] = "~~~"}) - 1)
            ELSE text
    IN IF raw = <<>> THEN <<>>
       ELSE IF re_search({DOCTYPE}, raw) # 0
            THEN cut(from_position(raw, re_search({DOCTYPE}, raw)))
       ELSE IF re_search({"<html"}, raw) # 0
            THEN cut(from_position(raw, re_search({"<html"}, raw)))
       ELSE IF re_search(FALLBACK_TAGS, raw) # 0
            THEN cut(from_position(raw, re_search(FALLBACK_TAGS, raw)))
       ELSE <<>>

\* isolate_and_clean_html with a fault: the retained part is put in lower case
isolate_lowered(raw) ==
    LET lowered(text) == [i \in 1..Len(text) |-> lower(text[i])]
    IN IF raw = <<>> THEN <<>>
       ELSE IF re_search({DOCTYPE}, raw) # 0
            THEN lowered(from_position(raw, re_search({DOCTYPE}, raw)))
       ELSE IF re_search({"<html"}, raw) # 0
            THEN lowered(from_position(raw, re_search({"<html"}, raw)))
       ELSE IF re_search(FALLBACK_TAGS, raw) # 0
            THEN lowered(from_position(raw, re_search(FALLBACK_TAGS, raw)))
       ELSE <<>>

\* lines 57-73
isolate_and_clean_html(raw) ==
    IF raw = <<>> THEN <<>>
    ELSE IF re_search({DOCTYPE}, raw) # 0
         THEN from_position(raw, re_search({DOCTYPE}, raw))
    ELSE IF re_search({"<html"}, raw) # 0
         THEN from_position(raw, re_search({"<html"}, raw))
    ELSE IF re_search(FALLBACK_TAGS, raw) # 0
         THEN from_position(raw, re_search(FALLBACK_TAGS, raw))
    ELSE <<>>

-----------------------------------------------------------------------------
(* core/utils.py, ip_limiter *)

MAX_REQUESTS_PER_IP == 100

\* request.client.host of a request without a client address
NoIp == ""

\* ip_limiter_map with a fault: a call that is rejected is not counted
ip_limiter_map_admitted(map, ip) ==
    IF ip = NoIp \/ map[ip] >= MAX_REQUESTS_PER_IP THEN map
    ELSE [map EXCEPT ![ip] = map[ip] + 1]

\* line 12-13: the map after the call
ip_limiter_map(map, ip) ==
    IF ip = NoIp THEN map ELSE [map EXCEPT ![ip] = map[ip] + 1]

\* lines 11-14: the value returned
ip_limiter(map, ip, max_requests) ==
    IF ip = NoIp THEN TRUE ELSE map[ip] + 1 <= max_requests

-----------------------------------------------------------------------------
(* BeautifulSoup(html_content, 'html.parser'), as core/utils.py uses it *)

\* the attribute main.py line 120 sets on the selected element
MARKER_ATTR == "data-neuro-edit-target"

Tok(kind, name, src, id, marked) ==
    [kind |-> kind, name |-> name, src |-> src, id |-> id, marked |-> marked]

\* what html.parser reports for a symbol: a start tag with its name and its
\* attributes src, id and data-neuro-edit-target, an end tag, a comment, a
\* declaration, or character data
token(sym) ==
    CASE sym = "<!DOCTYPE html>" -> Tok("doctype", "", "", "", FALSE)
      [] sym = "<!--c-->" -> Tok("comment", "", "", "", FALSE)
      [] sym = "<html>" -> Tok("open", "html", "", "", FALSE)
      [] sym = "</html>" -> Tok("close", "html", "", "", FALSE)
      [] sym = "<head>" -> Tok("open", "head", "", "", FALSE)
      [] sym = "</head>" -> Tok("close", "head", "", "", FALSE)
      [] sym = "<body>" -> Tok("open", "body", "", "", FALSE)
      [] sym = "</body>" -> Tok("close", "body", "", "", FALSE)
      [] sym = "<style>" -> Tok("open", "style", "", "", FALSE)
      [] sym = "</style>" -> Tok("close", "style", "", "", FALSE)
      [] sym = "<script>" -> Tok("open", "script", "", "", FALSE)
      [] sym = "<script src=\"a.js\">" -> Tok("open", "script", "a.js", "", FALSE)
      [] sym = "</script>" -> Tok("close", "script", "", "", FALSE)
      [] sym = "<div>" -> Tok("open", "div", "", "", FALSE)
      [] sym = "<div id=\"c1\">" -> Tok("open", "div", "", "c1", FALSE)
      [] sym = "</div>" -> Tok("close", "div", "", "", FALSE)
      [] sym = "<h1>" -> Tok("open", "h1", "", "", FALSE)
      [] sym = "<h1 data-neuro-edit-target=\"true\">" -> Tok("open", "h1", "", "", TRUE)
      [] sym = "<div data-neuro-edit-target=\"true\">" -> Tok("open", "div", "", "", TRUE)
      [] sym = "</h1>" -> Tok("close", "h1", "", "", FALSE)
      [] OTHER -> Tok("text", "", "", "", FALSE)

\* the end tag bs4 writes for an element
end_tag(name) ==
    CASE name = "html" -> "</html>"
      [] name = "head" -> "</head>"
      [] name = "body" -> "</body>"
      [] name = "style" -> "</style>"
      [] name = "script" -> "</script>"
      [] name = "div" -> "</div>"
      [] name = "h1" -> "</h1>"
      [] OTHER -> ""

\* html.parser's CDATA_CONTENT_ELEMENTS: up to their end tag all is character data
CDATA_CONTENT_ELEMENTS == {"script", "style"}

\* the nodes of the tree: a Tag keeps its start tag and its children, a
\* NavigableString its text, a Comment or Doctype its symbol
Tag(sym, children) == [kind |-> "tag", sym |-> sym, text |-> <<>>, children |-> children]
NavigableString(text) == [kind |-> "text", sym |-> "", text |-> text, children |-> <<>>]
Comment(sym) == [kind |-> "comment", sym |-> sym, text |-> <<>>, children |-> <<>>]
Doctype(sym) == [kind |-> "doctype", sym |-> sym, text |-> <<>>, children |-> <<>>]

\* Tag.name
name_of(node) == IF node.kind = "tag" THEN token(node.sym).name ELSE ""

\* the tree builder's stack of open elements; the first is the document itself
BeautifulSoupRoot == [sym |-> "[document]", children |-> <<>>]

\* object_was_parsed: a node becomes the last child of the innermost open element
append_node(stack, node) ==
    [stack EXCEPT ![Len(stack)].children = Append(@, node)]

\* handle_data: character data is collected, adjacent data makes one string
append_text(stack, sym) ==
    LET children == stack[Len(stack)].children
        n == Len(children)
    IN IF n > 0 /\ children[n].kind = "text"
       THEN [stack EXCEPT ![Len(stack)].children[n].text = Append(@, sym)]
       ELSE append_node(stack, NavigableString(<<sym>>))

\* popTag: the innermost open element is complete and joins its parent
pop_tag(stack) ==
    LET top == stack[Len(stack)]
    IN append_node(SubSeq(stack, 1, Len(stack) - 1), Tag(top.sym, top.children))

\* _popToTag: the elements are closed up to and including the innermost open
\* element of that name
RECURSIVE pop_to_tag(_, _)
pop_to_tag(stack, name) ==
    IF token(stack[Len(stack)].sym).name = name
    THEN pop_tag(stack)
    ELSE pop_to_tag(pop_tag(stack), name)

\* whether an element of that name is open
is_open(stack, name) ==
    \E k \in 2..Len(stack) : token(stack[k].sym).name = name

\* the end of the input closes every open element
RECURSIVE close_all(_)
close_all(stack) ==
    IF Len(stack) = 1 THEN stack[1].children ELSE close_all(pop_tag(stack))

\* feed: the symbols from position i on, read into the tree
RECURSIVE feed(_, _, _)
feed(markup, i, stack) ==
    IF i > Len(markup) THEN close_all(stack)
    ELSE LET t == token(markup[i])
             top == stack[Len(stack)]
             in_cdata == Len(stack) > 1 /\ token(top.sym).name \in CDATA_CONTENT_ELEMENTS
         IN IF in_cdata
            THEN IF t.kind = "close" /\ t.name = token(top.sym).name
                 THEN feed(markup, i + 1, pop_tag(stack))
                 ELSE feed(markup, i + 1, append_text(stack, markup[i]))
            ELSE CASE t.kind = "open" ->
                        feed(markup, i + 1,
                             Append(stack, [sym |-> markup[i], children |-> <<>>]))
                   [] t.kind = "close" ->
                        IF is_open(stack, t.name)
                        THEN feed(markup, i + 1, pop_to_tag(stack, t.name))
                        ELSE feed(markup, i + 1, stack)
                   [] t.kind = "comment" ->
                        feed(markup, i + 1, append_node(stack, Comment(markup[i])))
                   [] t.kind = "doctype" ->
                        feed(markup, i + 1, append_node(stack, Doctype(markup[i])))
                   [] OTHER -> feed(markup, i + 1, append_text(stack, markup[i]))

\* BeautifulSoup(markup, 'html.parser').contents
BeautifulSoup(markup) == feed(markup, 1, <<BeautifulSoupRoot>>)

\* the descendants of a list of siblings, in document order
RECURSIVE descendants(_)
descendants(nodes) ==
    IF nodes = <<>> THEN <<>>
    ELSE <<Head(nodes)>> \o descendants(Head(nodes).children) \o descendants(Tail(nodes))

\* find_all(names): the elements of these names, in document order
find_all(nodes, names) ==
    SelectSeq(descendants(nodes), LAMBDA n : n.kind = "tag" /\ name_of(n) \in names)

\* Tag.string: the text of the only child, looked for through only children;
\* None, here the empty text, when there is no child or more than one
RECURSIVE string_of(_)
string_of(node) ==
    IF Len(node.children) # 1 THEN <<>>
    ELSE LET child == node.children[1]
         IN CASE child.kind = "text" -> child.text
              [] child.kind = "tag" -> string_of(child)
              [] OTHER -> <<child.sym>>

\* without_comments with a fault: no comment is taken out
keep_comments(nodes) == nodes

\* the siblings and their descendants without the nodes of line 144-145
\* (Comment.extract) or without the elements of the given names (Tag.decompose)
RECURSIVE without_comments(_)
without_comments(nodes) ==
    IF nodes = <<>> THEN <<>>
    ELSE LET n == Head(nodes)
         IN (IF n.kind = "comment" THEN <<>>
             ELSE <<[n EXCEPT !.children = without_comments(n.children)]>>)
            \o without_comments(Tail(nodes))

RECURSIVE without_tags(_, _)
without_tags(nodes, names) ==
    IF nodes = <<>> THEN <<>>
    ELSE LET n == Head(nodes)
         IN (IF n.kind = "tag" /\ name_of(n) \in names THEN <<>>
             ELSE <<[n EXCEPT !.children = without_tags(n.children, names)]>>)
            \o without_tags(Tail(nodes), names)

\* ''.join(str(c) for c in nodes)
RECURSIVE decode(_)
decode(nodes) ==
    IF nodes = <<>> THEN <<>>
    ELSE LET n == Head(nodes)
         IN (CASE n.kind = "tag" -> <<n.sym>> \o decode(n.children) \o <<end_tag(name_of(n))>>
               [] n.kind = "text" -> n.text
               [] OTHER -> <<n.sym>>)
            \o decode(Tail(nodes))

\* "\n".join(parts)
RECURSIVE join(_, _)
join(sep, parts) ==
    IF parts = <<>> THEN <<>>
    ELSE IF Len(parts) = 1 THEN parts[1]
    ELSE parts[1] \o <<sep>> \o join(sep, Tail(parts))

\* tag[MARKER_ATTR] = 'true': the start tag with the attribute added
set_marker(sym) ==
    CASE sym = "<h1>" -> "<h1 data-neuro-edit-target=\"true\">"
      [] sym = "<div>" -> "<div data-neuro-edit-target=\"true\">"
      [] OTHER -> sym

-----------------------------------------------------------------------------
(* core/utils.py, extract_assets *)

\* css_parts with a fault: the last style element comes first
css_parts_reversed(soup) ==
    LET styles == find_all(soup, {"style"})
        with_string == SelectSeq(styles, LAMBDA style : string_of(style) # <<>>)
    IN [k \in 1..Len(with_string) |-> string_of(with_string[Len(with_string) + 1 - k])]

\* lines 130-133: the texts of the style elements that have one
css_parts(soup) ==
    LET styles == find_all(soup, {"style"})
        with_string == SelectSeq(styles, LAMBDA style : string_of(style) # <<>>)
    IN [k \in 1..Len(with_string) |-> string_of(with_string[k])]

\* lines 136-139: the texts of the script elements that have one and no src
js_parts(soup) ==
    LET scripts == find_all(soup, {"script"})
        inline == SelectSeq(scripts, LAMBDA script :
                      string_of(script) # <<>> /\ token(script.sym).src = "")
    IN [k \in 1..Len(inline) |-> string_of(inline[k])]

\* without_tags that spares the script elements that have a src
RECURSIVE without_inline_tags(_, _)
without_inline_tags(nodes, names) ==
    IF nodes = <<>> THEN <<>>
    ELSE LET n == Head(nodes)
         IN (IF n.kind = "tag" /\ name_of(n) \in names /\ token(n.sym).src = "" THEN <<>>
             ELSE <<[n EXCEPT !.children = without_inline_tags(n.children, names)]>>)
            \o without_inline_tags(Tail(nodes), names)

\* body_html_of with a fault: a script element that has a src stays in the body
body_html_keeps_src(soup, html_content) ==
    LET bodies == find_all(soup, {"body"})
    IN IF bodies # <<>>
       THEN decode(without_inline_tags(without_comments(bodies[1].children),
                                       {"style", "script"}))
       ELSE html_content

\* lines 142-150: the body's contents without comments, style and script
\* elements; the document as it came when it has no body
body_html_of(soup, html_content) ==
    LET bodies == find_all(soup, {"body"})
    IN IF bodies # <<>>
       THEN decode(without_tags(without_comments(bodies[1].children), {"style", "script"}))
       ELSE html_content

Assets(body_html, css, js) == [body_html |-> body_html, css |-> css, js |-> js]

\* extract_assets with a fault: a container element of the given id that is the
\* body's only element is replaced by its contents
extract_assets_unwrapped(html_content, container_id, raises) ==
    IF raises THEN Assets(html_content, <<>>, <<>>)
    ELSE LET soup == BeautifulSoup(html_content)
             bodies == find_all(soup, {"body"})
             kept == IF bodies = <<>> THEN <<>>
                     ELSE without_tags(without_comments(bodies[1].children),
                                       {"style", "script"})
             body_html ==
                 IF bodies = <<>> THEN html_content
                 ELSE IF Len(kept) = 1 /\ kept[1].kind = "tag"
                         /\ token(kept[1].sym).id = container_id
                 THEN decode(kept[1].children)
                 ELSE decode(kept)
         IN Assets(strip(body_html, WHITESPACE),
                   strip(join(NL, css_parts(soup)), WHITESPACE),
                   strip(join(NL, js_parts(soup)), WHITESPACE))

\* extract_assets with a fault: after an exception nothing of the document is returned
extract_assets_nothing(html_content, container_id, raises) ==
    IF raises THEN Assets(<<>>, <<>>, <<>>)
    ELSE LET soup == BeautifulSoup(html_content)
         IN Assets(strip(body_html_of(soup, html_content), WHITESPACE),
                   strip(join(NL, css_parts(soup)), WHITESPACE),
                   strip(join(NL, js_parts(soup)), WHITESPACE))

\* lines 125-156; raises tells whether the parse inside the try raises
extract_assets(html_content, container_id, raises) ==
    IF raises THEN Assets(html_content, <<>>, <<>>)
    ELSE LET soup == BeautifulSoup(html_content)
         IN Assets(strip(body_html_of(soup, html_content), WHITESPACE),
                   strip(join(NL, css_parts(soup)), WHITESPACE),
                   strip(join(NL, js_parts(soup)), WHITESPACE))

-----------------------------------------------------------------------------
(* Inputs of apply_diff_patch *)

MaxDocLen == 2
MaxPieces == 2

BoundedSeq(S, n) == UNION {[1..m -> S] : m \in 0..n}

RECURSIVE Concat(_)
Concat(seqs) == IF seqs = <<>> THEN <<>> ELSE Head(seqs) \o Concat(Tail(seqs))

DocChars == {"a", "b", " "}

\* the document and the patch of the spec's concrete scenario
ScenarioDoc == <<"<div>", "<h1>Old</h1>", "</div>">>
ScenarioPatch ==
    <<SEARCH_START, NL, "<h1>Old</h1>", NL, DIVIDER, NL, "<h1>New</h1>", NL, REPLACE_END>>

Documents == BoundedSeq(DocChars, MaxDocLen) \cup {ScenarioDoc}

\* what the oracle writes between SEARCH_START and DIVIDER
SearchTexts == {<<>>, <<"a">>, <<"b">>, <<" ">>, <<NL, "a", " ", NL>>}

\* what the oracle writes between DIVIDER and REPLACE_END
ReplaceTexts == {<<>>, <<NL, "b", NL>>}

\* a patch text is a run of pieces: complete blocks, lone sentinels, chatter
Pieces ==
    {<<SEARCH_START>> \o s \o <<DIVIDER>> \o r \o <<REPLACE_END>> :
        s \in SearchTexts, r \in ReplaceTexts}
    \cup {<<SEARCH_START>>, <<DIVIDER>>, <<REPLACE_END>>, <<"a">>}

PatchTexts == {Concat(ps) : ps \in BoundedSeq(Pieces, MaxPieces)} \cup {ScenarioPatch}

-----------------------------------------------------------------------------
(* Inputs of isolate_and_clean_html *)

MaxRawLen == 3

RawSymbols == {"<!DOCTYPE html>", "<!doctype html>", "<html", "<HTML", "<div", "<p>", "x"}

\* an oracle answer that wraps its page in a markdown fence, with and without
\* narration before and after it; "~~~" stands for the line of three backticks
FencedTexts ==
    {pre \o <<"~~~html", NL>> \o page \o <<NL, "~~~">> \o post :
        pre \in {<<>>, <<"x", NL>>},
        page \in {<<"<!DOCTYPE html>", "<html", "x">>, <<"<html", "x">>, <<"<div", "x">>},
        post \in {<<>>, <<NL, "x">>}}

RawTexts == BoundedSeq(RawSymbols, MaxRawLen) \cup FencedTexts

-----------------------------------------------------------------------------
(* Inputs of extract_assets *)

MaxItems == 2

\* what an oracle puts into a page: style and script elements, with and without
\* text, a heading, narration outside any tag, a comment, a line break
Items ==
    {<<"<style>", ".a{color:red}", "</style>">>,
     <<"<style>", " ", ".b{}", "</style>">>,
     <<"<style>", "</style>">>,
     <<"<script>", "f()", "</script>">>,
     <<"<script src=\"a.js\">", "</script>">>,
     <<"<script src=\"a.js\">", "g()", "</script>">>,
     <<"<h1>", "Hi", "</h1>">>,
     <<"chatter">>,
     <<"<!--c-->">>,
     <<NL>>}

ItemRuns == {Concat(items) : items \in BoundedSeq(Items, MaxItems)}

\* what stands between <html> and <body>
Heads ==
    {<<>>,
     <<"<head>", "<style>", ".a{color:red}", "</style>", "</head>">>,
     <<"<head>", "<script>", "f()", "</script>", "</head>">>}

\* the document of the spec's concrete scenario
ScenarioPage ==
    <<"<!DOCTYPE html>", "<html>", "<body>", "<style>", ".a{color:red}", "</style>",
      "<h1>", "Hi", "</h1>", "</body>", "</html>">>

\* whole pages, pages whose body holds one container element, a body that is
\* never closed, and markup without any body element
Pages ==
    {<<"<!DOCTYPE html>", "<html>">> \o h \o <<"<body>">> \o r \o <<"</body>", "</html>">> :
        h \in Heads, r \in ItemRuns}
    \cup {<<"<html>", "<body>", "<div id=\"c1\">">> \o r \o <<"</div>", "</body>", "</html>">> :
        r \in ItemRuns}
    \cup {<<"<body>">> \o r : r \in ItemRuns}
    \cup {<<"<div>">> \o r \o <<"</div>">> : r \in ItemRuns}
    \cup ItemRuns

\* the container ids a caller passes
ContainerIds == {"c1", "some-id"}

-----------------------------------------------------------------------------
(* Inputs of the endpoints of main.py *)

MaxOverLimit == 2

\* MODELS with a fault: a key that core/models.py does not define is in it
MODELS_with_unknown == {"glm-4.5-air", "gemini-2.5-flash-lite", "deepseek-r1", "gpt-unknown"}

\* core/models.py
MODELS == {"glm-4.5-air", "gemini-2.5-flash-lite", "deepseek-r1"}

\* body.model of a request
ModelKeys == {"glm-4.5-air", "gpt-unknown"}

\* request.client.host of a request
IPs == {"10.0.0.1"}

\* request.client.host of the calls of ip_limiter that are followed on their own
LimiterIPs == {"10.0.0.1", "10.0.0.2"}

\* the page of the spec's scenario as main.py line 126 marks it
MarkedPage ==
    <<"<!DOCTYPE html>", "<html>", "<body>", "<style>", ".a{color:red}", "</style>",
      "<h1 data-neuro-edit-target=\"true\">", "Hi", "</h1>", "</body>", "</html>">>

\* what the oracle answers: nothing, narration alone, markup that starts with
\* an html tag, the scenario's page, and, after a line of narration, that
\* page with the marker still on its heading
OracleTexts ==
    {<<>>, <<"x">>, <<"<html>", "x">>, ScenarioPage, <<"x", NL>> \o MarkedPage}

\* core/ai_services.py, generate_code: it returns a text, or raises
\* HTTPException 502 (provider error) or 503 (no API key)
OracleAnswers ==
    [ok : {TRUE}, text : OracleTexts, status : {200}]
    \cup [ok : {FALSE}, text : {<<>>}, status : {502, 503}]

\* uuid.uuid4().hex[:8] of main.py line 74
UuidHex == {"0a1b2c3d", "4e5f6a7b"}

\* f"neuroarti-container-{hex}"
new_container_id(hex) ==
    CASE hex = "0a1b2c3d" -> "neuroarti-container-0a1b2c3d"
      [] hex = "4e5f6a7b" -> "neuroarti-container-4e5f6a7b"

\* body.html of an update request: nothing, the scenario's page, and the
\* contents of a body alone
UpdateDocuments == {<<>>, ScenarioPage, <<"<div>", "Hi", "</div>">>}

\* body.css, body.js and body.container_id of an update request: what the
\* client holds beside the html, and the id an earlier build gave it
UpdateCss == {<<".b{}">>}
UpdateJs == {<<"g()">>}
UpdateContainerIds == {new_container_id("0a1b2c3d")}

\* the patch the oracle answers: nothing, narration without the search-begin
\* marker, the marker without a complete block, a block whose search text no
\* document holds, and a block that replaces the text Hi
UpdatePatches ==
    {<<>>,
     <<"x">>,
     <<SEARCH_START, NL, "Hi", NL>>,
     <<SEARCH_START, NL, "Old", NL, DIVIDER, NL, "New", NL, REPLACE_END>>,
     <<SEARCH_START, NL, "Hi", NL, DIVIDER, NL, "New", NL, REPLACE_END>>}

UpdateAnswers ==
    [ok : {TRUE}, text : UpdatePatches, status : {200}]
    \cup {answer \in OracleAnswers : ~answer.ok}

\* body.html of a rewrite request: the page the client holds, or nothing
RewriteDocuments == {<<>>, ScenarioPage}

\* body.selectedElementHtml of a rewrite request: an element of the page, the
\* same element with its end tag missing, an element the page does not hold,
\* text without any tag, nothing
SelectedElements ==
    {<<"<h1>", "Hi", "</h1>">>, <<"<h1>", "Hi">>, <<"<h1>", "Old", "</h1>">>,
     <<"x">>, <<>>}

-----------------------------------------------------------------------------
(* Inputs of the element edits of app.py and core/element_rewriter.py *)

MaxPatchItems == 2

\* what a page's body holds: headings, plain and identified containers, one of
\* them around a heading, text outside any element, a style element
PatchItems ==
    {<<"<h1>", "Hi", "</h1>">>,
     <<"<h1>", "Old", "</h1>">>,
     <<"<div>", "a", "</div>">>,
     <<"<div id=\"c1\">", "<h1>", "In", "</h1>", "b", "</div>">>,
     <<"x">>,
     <<"<style>", ".a{color:red}", "</style>">>}

\* request.html of a patch: the body's contents
PatchDocuments == {Concat(items) : items \in BoundedSeq(PatchItems, MaxPatchItems)}

\* request.selector: element types, one of them absent from every page, the
\* type of the wrapper that line 2202 adds, and an id
Selectors == {"h1", "div", "#c1", "section", "body"}

\* request.new_snippet: nothing, white space, one element, text, a comment,
\* an element after white space, two elements, a lone end tag
NewSnippets ==
    {<<>>, <<" ", NL>>,
     <<"<h1>", "New", "</h1>">>,
     <<"New">>,
     <<"<!--c-->">>,
     <<" ", "<h1>", "New", "</h1>">>,
     <<"<h1>", "New", "</h1>", "<div>", "more", "</div>">>,
     <<"</h1>">>}

\* request.snippet of a snippet edit and selected_element_html of a rewrite
SnippetTexts == {<<"<h1>", "Hi", "</h1>">>, <<"<div>", "a", "</div>">>}

\* what generate_code of app.py returns to create_edit_snippet, the oracle's
\* answer as clean_html_response left it: nothing, white space, words, text
\* with one of the characters < and >, text with both, an element
CleanedSnippets ==
    {<<>>, <<" ">>, <<"New">>, <<"a<b">>, <<"a>b">>, <<"a<b", " ", "a>b">>,
     <<"<h1>", "New", "</h1>">>}

\* app.py lines 152-177: generate_code returns the cleaned text or raises
\* HTTPException 502
SnippetAnswers ==
    [ok : {TRUE}, text : CleanedSnippets, status : {200}]
    \cup [ok : {FALSE}, text : {<<>>}, status : {502}]

\* what the oracle answers to rewrite_element: nothing, white space, words,
\* an element, an element after narration, an element in a markdown fence,
\* alone and between narration, a nested element in a plain fence, a fence
\* around words; "~~~" stands for the line of three backticks
RawElementTexts ==
    {<<>>, <<" ", NL>>, <<"New">>,
     <<"<h1>", "New", "</h1>">>,
     <<"x", NL, "<h1>", "New", "</h1>">>,
     <<"~~~html", NL, "<h1>", "New", "</h1>", NL, "~~~">>,
     <<"x", NL, "~~~html", NL, "<h1>", "New", "</h1>", NL, "~~~", NL, "x">>,
     <<"~~~", NL, "<div>", "<h1>", "New", "</h1>", "</div>", NL, "~~~">>,
     <<"~~~html", NL, "New", NL, "~~~">>}

\* core/ai_services.py: generate_code returns the text or raises HTTPException 502
ElementAnswers ==
    [ok : {TRUE}, text : RawElementTexts, status : {200}]
    \cup [ok : {FALSE}, text : {<<>>}, status : {502}]

-----------------------------------------------------------------------------
(* The groups of variables at rest *)

PatchIdle ==
    /\ html = <<>>
    /\ patch_instructions = <<>>
    /\ updated_full_html = <<>>
    /\ repatched_full_html = <<>>
    /\ patch_pc = "idle"

IsolateIdle ==
    /\ raw_text = <<>>
    /\ isolated_html = <<>>
    /\ reisolated_html = <<>>
    /\ isolate_pc = "idle"

Request(endpoint, ip, model, body_html, selectedElementHtml) ==
    [endpoint |-> endpoint, ip |-> ip, model |-> model, html |-> body_html,
     selectedElementHtml |-> selectedElementHtml, css |-> <<>>, js |-> <<>>,
     container_id |-> ""]

\* main.py lines 35-41: an update request carries css, js and container_id too
UpdateRequest(ip, model, body_html, css, js, container_id) ==
    [Request("PUT /api/ask-ai", ip, model, body_html, <<>>)
        EXCEPT !.css = css, !.js = js, !.container_id = container_id]

\* a response: its status, and of its JSON content ok, detail or message, and,
\* when bundle tells that they are there, html, css, js and container_id
Response(status, ok, detail, bundle, body_html, css, js, container_id) ==
    [status |-> status, ok |-> ok, detail |-> detail, bundle |-> bundle,
     html |-> body_html, css |-> css, js |-> js, container_id |-> container_id]

NoRequest == Request("none", NoIp, "", <<>>, <<>>)
NoResponse == Response(0, FALSE, "", FALSE, <<>>, <<>>, <<>>, "")

\* the server after start-up: core/utils.py line 7, ip_address_map = {}
ServerIdle ==
    /\ ip_address_map = [ip \in IPs |-> 0]
    /\ request = NoRequest
    /\ oracle = "not called"
    /\ marked_full_html = <<>>
    /\ ai_response_text = <<>>
    /\ clean_html_doc = <<>>
    /\ split_container_id = ""
    /\ response = NoResponse

NoAssets == Assets(<<>>, <<>>, <<>>)

AssetsIdle ==
    /\ full_html = <<>>
    /\ assets_container_id = ""
    /\ parse_raises = FALSE
    /\ assets = NoAssets
    /\ assets_pc = "idle"

\* an element edit: the document and the selector of a patch, and the new
\* snippet, the snippet to edit or the selected element
ElementRequest(endpoint, body_html, selector, snippet) ==
    [endpoint |-> endpoint, html |-> body_html, selector |-> selector, snippet |-> snippet]

\* its response: the status, the detail of an error, and of the JSON content
\* html, css and js, or snippet
ElementResponse(status, detail, body_html, css, js, snippet) ==
    [status |-> status, detail |-> detail, html |-> body_html, css |-> css, js |-> js,
     snippet |-> snippet]

NoElementRequest == ElementRequest("none", <<>>, "", <<>>)
NoElementResponse == ElementResponse(0, "", <<>>, <<>>, <<>>, <<>>)

ElementIdle ==
    /\ element_request = NoElementRequest
    /\ element_oracle = <<>>
    /\ element_cleaned = <<>>
    /\ element_response = NoElementResponse

\* no call of ip_limiter is followed on its own
LimiterIdle ==
    /\ limiter_ip = NoIp
    /\ admitted = TRUE
    /\ limiter_calls = <<>>

-----------------------------------------------------------------------------
(* Calls of apply_diff_patch *)

InitPatch ==
    /\ html \in Documents
    /\ patch_instructions \in PatchTexts
    /\ updated_full_html = <<>>
    /\ repatched_full_html = <<>>
    /\ patch_pc = "call"
    /\ IsolateIdle
    /\ ServerIdle
    /\ AssetsIdle
    /\ ElementIdle
    /\ LimiterIdle

\* main.py line 94: updated_full_html = apply_diff_patch(body.html, patch_instructions)
ApplyDiffPatch ==
    /\ patch_pc = "call"
    /\ updated_full_html' = apply_diff_patch(html, patch_instructions)
    /\ patch_pc' = "returned"
    /\ UNCHANGED <<html, patch_instructions, repatched_full_html, isolate_vars, server_vars, assets_vars, element_vars, limiter_vars>>

\* the same patch applied to the already patched document
ReapplyDiffPatch ==
    /\ patch_pc = "returned"
    /\ repatched_full_html' = apply_diff_patch(updated_full_html, patch_instructions)
    /\ patch_pc' = "reapplied"
    /\ UNCHANGED <<html, patch_instructions, updated_full_html, isolate_vars, server_vars, assets_vars, element_vars, limiter_vars>>

NextPatch == ApplyDiffPatch \/ ReapplyDiffPatch

SpecPatch == InitPatch /\ [][NextPatch]_vars

-----------------------------------------------------------------------------
(* Calls of isolate_and_clean_html *)

InitIsolate ==
    /\ raw_text \in RawTexts
    /\ isolated_html = <<>>
    /\ reisolated_html = <<>>
    /\ isolate_pc = "call"
    /\ PatchIdle
    /\ ServerIdle
    /\ AssetsIdle
    /\ ElementIdle
    /\ LimiterIdle

\* main.py lines 71 and 142: isolate_and_clean_html(ai_response_text)
IsolateAndCleanHtml ==
    /\ isolate_pc = "call"
    /\ isolated_html' = isolate_and_clean_html(raw_text)
    /\ isolate_pc' = "returned"
    /\ UNCHANGED <<raw_text, reisolated_html, patch_vars, server_vars, assets_vars, element_vars, limiter_vars>>

\* the already clean output isolated again
ReisolateHtml ==
    /\ isolate_pc = "returned"
    /\ reisolated_html' = isolate_and_clean_html(isolated_html)
    /\ isolate_pc' = "reisolated"
    /\ UNCHANGED <<raw_text, isolated_html, patch_vars, server_vars, assets_vars, element_vars, limiter_vars>>

NextIsolate == IsolateAndCleanHtml \/ ReisolateHtml

SpecIsolate == InitIsolate /\ [][NextIsolate]_vars

-----------------------------------------------------------------------------
(* Calls of extract_assets *)

InitAssets ==
    /\ full_html \in Pages
    /\ assets_container_id \in ContainerIds
    /\ parse_raises \in BOOLEAN
    /\ assets = NoAssets
    /\ assets_pc = "call"
    /\ PatchIdle
    /\ IsolateIdle
    /\ ServerIdle
    /\ ElementIdle
    /\ LimiterIdle

\* main.py lines 75, 95 and 146: extract_assets(clean_html_doc, container_id)
ExtractAssets ==
    /\ assets_pc = "call"
    /\ assets' = extract_assets(full_html, assets_container_id, parse_raises)
    /\ assets_pc' = "returned"
    /\ UNCHANGED <<full_html, assets_container_id, parse_raises,
                   patch_vars, isolate_vars, server_vars, element_vars, limiter_vars>>

NextAssets == ExtractAssets

SpecAssets == InitAssets /\ [][NextAssets]_vars

-----------------------------------------------------------------------------
(* Calls of ip_limiter *)

\* the server after start-up, core/utils.py line 7, with two clients
InitLimiter ==
    /\ ip_address_map = [ip \in LimiterIPs |-> 0]
    /\ limiter_ip = NoIp
    /\ admitted = TRUE
    /\ limiter_calls = [ip \in LimiterIPs |-> 0]
    /\ request = NoRequest
    /\ oracle = "not called"
    /\ marked_full_html = <<>>
    /\ ai_response_text = <<>>
    /\ clean_html_doc = <<>>
    /\ split_container_id = ""
    /\ response = NoResponse
    /\ PatchIdle
    /\ IsolateIdle
    /\ AssetsIdle
    /\ ElementIdle

\* main.py lines 61, 80 and 100: ip_limiter(ip, MAX_REQUESTS_PER_IP), called by
\* whichever endpoint a client's request reaches
IpLimiter ==
    \E ip \in LimiterIPs \cup {NoIp} :
        /\ ip # NoIp => limiter_calls[ip] < MAX_REQUESTS_PER_IP + MaxOverLimit
        /\ limiter_ip' = ip
        /\ admitted' = ip_limiter(ip_address_map, ip, MAX_REQUESTS_PER_IP)
        /\ ip_address_map' = ip_limiter_map(ip_address_map, ip)
        /\ limiter_calls' =
              IF ip = NoIp THEN limiter_calls ELSE [limiter_calls EXCEPT ![ip] = @ + 1]
        /\ UNCHANGED <<request, oracle, marked_full_html, ai_response_text, clean_html_doc,
                       split_container_id, response,
                       patch_vars, isolate_vars, assets_vars, element_vars>>

NextLimiter == IpLimiter

SpecLimiter == InitLimiter /\ [][NextLimiter]_vars

-----------------------------------------------------------------------------
(* main.py, POST /api/ask-ai *)

Init ==
    PatchIdle /\ IsolateIdle /\ ServerIdle /\ AssetsIdle /\ ElementIdle /\ LimiterIdle

RateLimited == Response(429, FALSE, "Rate limit exceeded.", FALSE, <<>>, <<>>, <<>>, "")

HttpError(status, detail) == Response(status, FALSE, detail, FALSE, <<>>, <<>>, <<>>, "")

\* BundleResponse with a fault: every rule of the css is prefixed with the
\* selector of the container
BundleResponseScoped(a, container_id) ==
    Response(200, TRUE, "", TRUE, a.body_html,
             Concat([k \in 1..Len(a.css) |->
                        IF a.css[k] \in WHITESPACE THEN <<a.css[k]>>
                        ELSE <<"#", container_id, " ", a.css[k]>>]),
             a.js, container_id)

\* BundleResponse with a fault: the container id is the one that line 146
\* passes to extract_assets
BundleResponseSomeId(a, container_id) ==
    Response(200, TRUE, "", TRUE, a.body_html, a.css, a.js, "some-id")

\* BundleResponse with a fault: the css is returned to the first request of a
\* client only
BundleResponseFirstOnly(a, container_id) ==
    Response(200, TRUE, "", TRUE, a.body_html,
             IF \E ip \in IPs : ip_address_map[ip] > 0 THEN <<>> ELSE a.css,
             a.js, container_id)

\* line 76: the JSON response that carries html, css, js and container_id
BundleResponse(a, container_id) ==
    Response(200, TRUE, "", TRUE, a.body_html, a.css, a.js, container_id)

\* what a handler leaves behind when it ends before it calls the oracle
NoOracleCall ==
    /\ oracle' = "not called"
    /\ marked_full_html' = <<>>
    /\ ai_response_text' = <<>>
    /\ clean_html_doc' = <<>>
    /\ split_container_id' = ""

\* lines 59-76: one request handled from its arrival to its response; the
\* oracle's answer and the uuid are drawn where the handler asks for them
build_or_full_update(ip, model) ==
    /\ ip # NoIp => ip_address_map[ip] < MAX_REQUESTS_PER_IP + MaxOverLimit
    /\ request' = Request("POST /api/ask-ai", ip, model, <<>>, <<>>)
    /\ ip_address_map' = ip_limiter_map(ip_address_map, ip)
    /\ IF ~ip_limiter(ip_address_map, ip, MAX_REQUESTS_PER_IP)
       THEN response' = RateLimited /\ NoOracleCall
       ELSE IF model \notin MODELS
       THEN response' = HttpError(400, "Invalid model selected") /\ NoOracleCall
       ELSE \E answer \in OracleAnswers :
            IF ~answer.ok
            THEN /\ response' = HttpError(answer.status, "AI service error")
                 /\ oracle' = "failed"
                 /\ marked_full_html' = <<>>
                 /\ ai_response_text' = <<>>
                 /\ clean_html_doc' = <<>>
                 /\ split_container_id' = ""
            ELSE LET clean == isolate_and_clean_html(answer.text)
                 IN /\ oracle' = "answered"
                    /\ marked_full_html' = <<>>
                    /\ ai_response_text' = answer.text
                    /\ clean_html_doc' = clean
                    /\ IF clean = <<>>
                       THEN /\ response' =
                                  HttpError(500, "AI failed to generate valid HTML content.")
                            /\ split_container_id' = ""
                       ELSE \E hex \in UuidHex :
                                /\ split_container_id' = new_container_id(hex)
                                /\ response' =
                                      BundleResponse(
                                          extract_assets(clean, new_container_id(hex), FALSE),
                                          new_container_id(hex))
    /\ UNCHANGED <<patch_vars, isolate_vars, assets_vars, element_vars, limiter_vars>>

BuildOrFullUpdate ==
    \E ip \in IPs \cup {NoIp}, model \in ModelKeys : build_or_full_update(ip, model)

-----------------------------------------------------------------------------
(* main.py, PUT /api/ask-ai *)

\* lines 91-92: the contents of the body element as they stand in body.html,
\* the whole of body.html when it has no body element
original_body_content_of(body_html) ==
    LET bodies == find_all(BeautifulSoup(body_html), {"body"})
    IN IF bodies # <<>> THEN decode(bodies[1].children) ELSE body_html

\* lines 78-96: one request handled from its arrival to its response.  The
\* HTTPException that generate_code raises is not caught here and keeps its
\* status.
diff_patch_update(ip, model, body_html, css, js, container_id) ==
    /\ ip # NoIp => ip_address_map[ip] < MAX_REQUESTS_PER_IP + MaxOverLimit
    /\ request' = UpdateRequest(ip, model, body_html, css, js, container_id)
    /\ ip_address_map' = ip_limiter_map(ip_address_map, ip)
    /\ IF ~ip_limiter(ip_address_map, ip, MAX_REQUESTS_PER_IP)
       THEN response' = RateLimited /\ NoOracleCall
       ELSE IF body_html = <<>>
       THEN response' = HttpError(400, "HTML content is required.") /\ NoOracleCall
       ELSE IF model \notin MODELS
       THEN response' = HttpError(400, "Invalid model selected") /\ NoOracleCall
       ELSE /\ marked_full_html' = <<>>
            /\ clean_html_doc' = <<>>
            /\ \E answer \in UpdateAnswers :
                 IF ~answer.ok
                 THEN /\ response' = HttpError(answer.status, "AI service error")
                      /\ oracle' = "failed"
                      /\ ai_response_text' = <<>>
                      /\ split_container_id' = ""
                 ELSE /\ oracle' = "answered"
                      /\ ai_response_text' = answer.text
                      /\ IF answer.text = <<>> \/ ~contains(answer.text, <<SEARCH_START>>)
                         THEN /\ split_container_id' = ""
                              /\ response' =
                                    Response(200, TRUE, "", TRUE,
                                             original_body_content_of(body_html), css, js,
                                             container_id)
                         ELSE /\ split_container_id' = container_id
                              /\ response' =
                                    BundleResponse(
                                        extract_assets(
                                            apply_diff_patch(body_html, answer.text),
                                            container_id, FALSE),
                                        container_id)
    /\ UNCHANGED <<patch_vars, isolate_vars, assets_vars, element_vars, limiter_vars>>

DiffPatchUpdate ==
    \E ip \in IPs \cup {NoIp}, model \in ModelKeys, body_html \in UpdateDocuments,
       css \in UpdateCss, js \in UpdateJs, container_id \in UpdateContainerIds :
        diff_patch_update(ip, model, body_html, css, js, container_id)

-----------------------------------------------------------------------------
(* main.py, PUT /api/rewrite-element *)

\* line 112: soup.find(lambda tag: isinstance(tag, Tag)); <<>> stands for None
first_tag(soup) ==
    LET tags == SelectSeq(descendants(soup), LAMBDA n : n.kind = "tag")
    IN IF tags = <<>> THEN <<>> ELSE <<tags[1]>>

\* original_tag_str_of with a fault: the empty text, which every document holds
original_tag_str_lost(selected_tag) == <<>>

\* line 117: str(selected_tag)
original_tag_str_of(selected_tag) == decode(selected_tag)

\* lines 120-121: str(selected_tag) once the marker attribute is set
marked_tag_with_attr_of(selected_tag) ==
    decode(<<[selected_tag[1] EXCEPT !.sym = set_marker(@)]>>)

\* line 126: the document with the marker on the selected element
marked_full_html_of(body_html, selected_tag) ==
    replace_first(body_html, original_tag_str_of(selected_tag),
                  marked_tag_with_attr_of(selected_tag))

\* lines 148-153: the JSON response of a rewrite; it has no container_id
RewriteResponse(a) == Response(200, TRUE, "", TRUE, a.body_html, a.css, a.js, "")

\* lines 98-157: one request handled from its arrival to its response.  An
\* exception raised between line 108 and line 153, the HTTPException of line
\* 114 and those of generate_code included, is caught at line 155 and answered
\* with the status 500.
rewrite_element_endpoint(ip, model, body_html, selectedElementHtml) ==
    /\ ip # NoIp => ip_address_map[ip] < MAX_REQUESTS_PER_IP + MaxOverLimit
    /\ request' = Request("PUT /api/rewrite-element", ip, model, body_html,
                           selectedElementHtml)
    /\ ip_address_map' = ip_limiter_map(ip_address_map, ip)
    /\ IF ~ip_limiter(ip_address_map, ip, MAX_REQUESTS_PER_IP)
       THEN response' = RateLimited /\ NoOracleCall
       ELSE IF model \notin MODELS
       THEN response' = HttpError(400, "Invalid model selected") /\ NoOracleCall
       ELSE IF body_html = <<>> \/ selectedElementHtml = <<>>
       THEN /\ response' =
                  HttpError(400, "Full HTML and a selected element are required.")
            /\ NoOracleCall
       ELSE LET selected_tag == first_tag(BeautifulSoup(selectedElementHtml))
            IN IF selected_tag = <<>>
               THEN /\ response' = HttpError(500, "400: Invalid selected element HTML.")
                    /\ NoOracleCall
               ELSE IF ~contains(body_html, original_tag_str_of(selected_tag))
               THEN /\ response' =
                          HttpError(500, "The selected element could not be found in the full HTML document.")
                    /\ NoOracleCall
               ELSE /\ marked_full_html' = marked_full_html_of(body_html, selected_tag)
                    /\ \E answer \in OracleAnswers :
                         IF ~answer.ok
                         THEN /\ response' = HttpError(500, "AI service error")
                              /\ oracle' = "failed"
                              /\ ai_response_text' = <<>>
                              /\ clean_html_doc' = <<>>
                              /\ split_container_id' = ""
                         ELSE LET clean == isolate_and_clean_html(answer.text)
                              IN /\ oracle' = "answered"
                                 /\ ai_response_text' = answer.text
                                 /\ clean_html_doc' = clean
                                 /\ split_container_id' =
                                       IF clean = <<>> THEN "" ELSE "some-id"
                                 /\ response' =
                                       IF clean = <<>>
                                       THEN HttpError(500,
                                                "AI returned an empty or invalid full HTML document.")
                                       ELSE RewriteResponse(
                                                extract_assets(clean, "some-id", FALSE))
    /\ UNCHANGED <<patch_vars, isolate_vars, assets_vars, element_vars, limiter_vars>>

RewriteElementEndpoint ==
    \E ip \in IPs \cup {NoIp}, model \in ModelKeys, body_html \in RewriteDocuments,
       selectedElementHtml \in SelectedElements :
        rewrite_element_endpoint(ip, model, body_html, selectedElementHtml)

Next == BuildOrFullUpdate \/ DiffPatchUpdate \/ RewriteElementEndpoint

Spec == Init /\ [][Next]_vars

-----------------------------------------------------------------------------
(* app.py, extract_assets and POST /patch-html *)

\* app.py lines 2081-2095: every style element gives its text or '', every
\* script element that has a text gives it, the body's contents are returned
\* as they are, and str(soup) when there is no body
app_extract_assets(html_content, raises) ==
    IF raises THEN Assets(html_content, <<>>, <<>>)
    ELSE LET soup == BeautifulSoup(html_content)
             styles == find_all(soup, {"style"})
             scripts == SelectSeq(find_all(soup, {"script"}),
                                  LAMBDA script : string_of(script) # <<>>)
             bodies == find_all(soup, {"body"})
         IN Assets(IF bodies # <<>> THEN decode(bodies[1].children) ELSE decode(soup),
                   strip(join(NL, [k \in 1..Len(styles) |-> string_of(styles[k])]),
                         WHITESPACE),
                   strip(join(NL, [k \in 1..Len(scripts) |-> string_of(scripts[k])]),
                         WHITESPACE))

\* the id a selector of the form #id names, "" when it names an element type
selector_id(selector) == IF selector = "#c1" THEN "c1" ELSE ""

\* whether soupsieve matches the element with the selector: a type selector
\* matches by the name, an id selector by the id attribute
matches(node, selector) ==
    /\ node.kind = "tag"
    /\ IF selector_id(selector) # ""
       THEN token(node.sym).id = selector_id(selector)
       ELSE name_of(node) = selector

\* line 2205: soup.select_one(selector), the first match in document order;
\* <<>> stands for None
select_one(soup, selector) ==
    LET hits == SelectSeq(descendants(soup), LAMBDA n : matches(n, selector))
    IN IF hits = <<>> THEN <<>> ELSE <<hits[1]>>

\* replace_with with a fault: every element the selector matches is replaced
RECURSIVE replace_every(_, _, _)
replace_every(nodes, selector, new_tag) ==
    IF nodes = <<>> THEN <<>>
    ELSE LET n == Head(nodes)
         IN (IF matches(n, selector) THEN <<new_tag>>
             ELSE <<[n EXCEPT !.children = replace_every(n.children, selector, new_tag)]>>)
            \o replace_every(Tail(nodes), selector, new_tag)

\* lines 2219-2225: target_element.replace_with(new_tag), the tree in which the
\* node stands where the first match of the selector stood
RECURSIVE replace_with(_, _, _)
replace_with(nodes, selector, new_tag) ==
    IF nodes = <<>> THEN <<>>
    ELSE LET n == Head(nodes)
         IN IF matches(n, selector) THEN <<new_tag>> \o Tail(nodes)
            ELSE IF select_one(n.children, selector) # <<>>
            THEN <<[n EXCEPT !.children = replace_with(n.children, selector, new_tag)]>>
                 \o Tail(nodes)
            ELSE <<n>> \o replace_with(Tail(nodes), selector, new_tag)

ElementError(status, detail) == ElementResponse(status, detail, <<>>, <<>>, <<>>, <<>>)

\* line 2227: {"html": body_html, "css": css, "js": js}
PatchResponse(a) == ElementResponse(200, "", a.body_html, a.css, a.js, <<>>)

\* lines 2199-2231.  The HTTPException of lines 2207, 2211 and 2216 is raised
\* inside the try and caught at line 2229, so each is answered with status 500
\* and its own status at the head of the detail.
patch_html(body_html, selector, new_snippet) ==
    LET soup == BeautifulSoup(<<"<body>">> \o body_html \o <<"</body>">>)
        new_snippet_soup == BeautifulSoup(new_snippet)
    IN IF select_one(soup, selector) = <<>>
       THEN ElementError(500, "Failed to patch HTML: 404: Selector not found.")
       ELSE IF strip(new_snippet, WHITESPACE) = <<>>
       THEN ElementError(500, "Failed to patch HTML: 400: New snippet is empty.")
       ELSE IF new_snippet_soup = <<>>
       THEN ElementError(500, "Failed to patch HTML: 500: Failed to parse new snippet.")
       ELSE PatchResponse(
                app_extract_assets(
                    decode(replace_with(soup, selector, new_snippet_soup[1])), FALSE))

-----------------------------------------------------------------------------
(* app.py, POST /edit-snippet *)

\* the characters < and > that a symbol holds: a tag, a comment and a
\* declaration hold both, the texts a<b and a>b one of them
angle_chars(sym) ==
    CASE sym = "a<b" -> {"<"}
      [] sym = "a>b" -> {">"}
      [] token(sym).kind # "text" -> {"<", ">"}
      [] OTHER -> {}

\* c in text, for the characters < and >
has_char(text, c) == \E k \in 1..Len(text) : c \in angle_chars(text[k])

\* line 255: {"snippet": ...}
SnippetResponse(snippet) == ElementResponse(200, "", <<>>, <<>>, <<>>, snippet)

\* create_edit_snippet with a fault: any answer that is not empty is returned
create_edit_snippet_unchecked(snippet, answer) ==
    IF ~answer.ok THEN ElementError(answer.status, "AI service error")
    ELSE IF answer.text # <<>> THEN SnippetResponse(answer.text)
    ELSE SnippetResponse(snippet)

\* lines 224-256; answer is what generate_code of line 245 returns or raises
create_edit_snippet(snippet, answer) ==
    IF ~answer.ok THEN ElementError(answer.status, "AI service error")
    ELSE LET modified_snippet == answer.text
         IN IF /\ modified_snippet # <<>>
               /\ Len(strip(modified_snippet, WHITESPACE)) > 0
               /\ has_char(modified_snippet, "<")
               /\ has_char(modified_snippet, ">")
            THEN SnippetResponse(modified_snippet)
            ELSE SnippetResponse(snippet)

-----------------------------------------------------------------------------
(* core/element_rewriter.py *)

\* the line of three backticks, alone or followed by html
is_fence(sym) == sym \in {"~~~html", "~~~"}

\* \s*: the first position from k on that holds no white space
RECURSIVE skip_whitespace(_, _)
skip_whitespace(text, k) ==
    IF k <= Len(text) /\ text[k] \in WHITESPACE THEN skip_whitespace(text, k + 1) ELSE k

\* line 17: the group 1 of the leftmost match of a fence, white space, a start
\* tag, and the nearest end tag of the same name that white space and a fence
\* follow; <<>> when there is no match
markdown_match(raw_response) ==
    LET first(k) == skip_whitespace(raw_response, k + 1)
        ends(k) ==
            {j \in (first(k) + 1)..Len(raw_response) :
                /\ token(raw_response[j]).kind = "close"
                /\ token(raw_response[j]).name = token(raw_response[first(k)]).name
                /\ skip_whitespace(raw_response, j + 1) <= Len(raw_response)
                /\ is_fence(raw_response[skip_whitespace(raw_response, j + 1)])}
        starts ==
            {k \in 1..Len(raw_response) :
                /\ is_fence(raw_response[k])
                /\ first(k) <= Len(raw_response)
                /\ token(raw_response[first(k)]).kind = "open"
                /\ ends(k) # {}}
    IN IF starts = {} THEN <<>>
       ELSE SubSeq(raw_response, first(Min(starts)), Min(ends(Min(starts))))

\* lines 24-27: str() of the first tag of BeautifulSoup(raw_response, 'lxml').
\* lxml builds no tree for white space; otherwise it puts the markup into the
\* html and body elements, the text before the first tag into a p element, and
\* the first tag is the html element.  <<>> stands for no tag.
lxml_first_tag(raw_response) ==
    IF strip(raw_response, WHITESPACE) = <<>> THEN <<>>
    ELSE LET tags == {k \in 1..Len(raw_response) : token(raw_response[k]).kind # "text"}
             lead == IF tags = {} THEN Len(raw_response) ELSE Min(tags) - 1
         IN <<"<html>", "<body>">>
            \o (IF lead = 0 THEN <<>>
                ELSE <<"<p>">> \o SubSeq(raw_response, 1, lead) \o <<"</p>">>)
            \o SubSeq(raw_response, lead + 1, Len(raw_response))
            \o <<"</body>", "</html>">>

\* lines 31-33: (<.*?>.*?</.*?>), from the first tag that an end tag follows
\* to that end tag
tag_match(raw_response) ==
    LET closes(i) == {j \in (i + 1)..Len(raw_response) : token(raw_response[j]).kind = "close"}
        starts == {i \in 1..Len(raw_response) :
                      token(raw_response[i]).kind # "text" /\ closes(i) # {}}
    IN IF starts = {} THEN <<>>
       ELSE SubSeq(raw_response, Min(starts), Min(closes(Min(starts))))

\* lines 6-36; raises tells whether the parse of line 24 raises, as it does
\* when the lxml parser is not installed
clean_ai_response(raw_response, raises) ==
    IF raw_response = <<>> THEN <<>>
    ELSE IF markdown_match(raw_response) # <<>>
    THEN strip(markdown_match(raw_response), WHITESPACE)
    ELSE IF ~raises THEN lxml_first_tag(raw_response)
    ELSE strip(tag_match(raw_response), WHITESPACE)

\* lines 37-59: what rewrite_element returns, for the cleaned answer
rewrite_element(selected_element_html, rewritten_element) ==
    IF rewritten_element = <<>> THEN selected_element_html ELSE rewritten_element

-----------------------------------------------------------------------------
(* The element edits handled one by one *)

SnippetRequests ==
    {ElementRequest("POST /edit-snippet", <<>>, "", snippet) : snippet \in SnippetTexts}

RewriteRequests ==
    {ElementRequest("rewrite_element", <<>>, "", selected_element_html) :
        selected_element_html \in SnippetTexts}

\* the element edits that arrive
PatchRequests ==
    {ElementRequest("POST /patch-html", body_html, selector, new_snippet) :
        body_html \in PatchDocuments, selector \in Selectors, new_snippet \in NewSnippets}

\* one element edit has arrived and waits for its handler
InitElement ==
    /\ element_request \in PatchRequests \cup SnippetRequests \cup RewriteRequests
    /\ element_oracle = <<>>
    /\ element_cleaned = <<>>
    /\ element_response = NoElementResponse
    /\ PatchIdle
    /\ IsolateIdle
    /\ ServerIdle
    /\ AssetsIdle
    /\ LimiterIdle

Pending(endpoint) ==
    element_request.endpoint = endpoint /\ element_response = NoElementResponse

PatchHtml ==
    /\ Pending("POST /patch-html")
    /\ element_response' =
          patch_html(element_request.html, element_request.selector,
                     element_request.snippet)
    /\ UNCHANGED <<element_request, element_oracle, element_cleaned,
                   patch_vars, isolate_vars, server_vars, assets_vars, limiter_vars>>

CreateEditSnippet ==
    /\ Pending("POST /edit-snippet")
    /\ \E answer \in SnippetAnswers :
         /\ element_oracle' = answer.text
         /\ element_cleaned' = answer.text
         /\ element_response' = create_edit_snippet(element_request.snippet, answer)
    /\ UNCHANGED <<element_request,
                   patch_vars, isolate_vars, server_vars, assets_vars, limiter_vars>>

\* core/element_rewriter.py lines 37-59; the HTTPException of generate_code
\* is not caught
RewriteElement ==
    /\ Pending("rewrite_element")
    /\ \E answer \in ElementAnswers, raises \in BOOLEAN :
         /\ element_oracle' = answer.text
         /\ IF ~answer.ok
            THEN /\ element_cleaned' = <<>>
                 /\ element_response' = ElementError(answer.status, "AI service error")
            ELSE /\ element_cleaned' = clean_ai_response(answer.text, raises)
                 /\ element_response' =
                       SnippetResponse(
                           rewrite_element(element_request.snippet,
                                           clean_ai_response(answer.text, raises)))
    /\ UNCHANGED <<element_request,
                   patch_vars, isolate_vars, server_vars, assets_vars, limiter_vars>>

NextElement == PatchHtml \/ CreateEditSnippet \/ RewriteElement

SpecElement == InitElement /\ [][NextElement]_vars

-----------------------------------------------------------------------------
(* Claims about apply_diff_patch, checked under SpecPatch *)

\* the positions at which sub occurs in text
Occurrences(text, sub) ==
    {i \in 1..(Len(text) - Len(sub) + 1) : SubSeq(text, i, i + Len(sub) - 1) = sub}

\* text consists of whitespace only (the empty text included)
IsBlank(text) == \A i \in 1..Len(text) : text[i] \in WHITESPACE

\* text with every whitespace character removed
Squeeze(text) == SelectSeq(text, LAMBDA c : c \notin WHITESPACE)

\* after is before with its leftmost occurrence of s replaced by r, and nothing else changed
FirstOccurrenceReplaced(before, s, r, after) ==
    \E i \in Occurrences(before, s) :
        /\ \A j \in Occurrences(before, s) : i <= j
        /\ after = SubSeq(before, 1, i - 1) \o r \o SubSeq(before, i + Len(s), Len(before))

\* p holds no SEARCH_START followed by a DIVIDER followed by a REPLACE_END
NoCompleteBlock(p) ==
    ~ \E i \in 1..Len(p) :
        /\ p[i] = SEARCH_START
        /\ \E j \in (i + 1)..Len(p) :
              /\ p[j] = DIVIDER
              /\ \E k \in (j + 1)..Len(p) : p[k] = REPLACE_END

\* the PatchBlocks of the patch text, in the order they appear in it
PatchBlocks == finditer(patch_instructions, 1)

\* the search and the replace text of a block: what stands between the
\* sentinels, without the newlines around it
Max(S) == CHOOSE x \in S : \A y \in S : y <= x
TrimNewlines(text) ==
    LET keep == {i \in 1..Len(text) : text[i] # NL}
    IN IF keep = {} THEN <<>> ELSE SubSeq(text, Min(keep), Max(keep))
SearchOf(block) == TrimNewlines(block.group1)
ReplaceOf(block) == TrimNewlines(block.group2)

\* B1(B2(...Bn(doc))): the blocks applied to doc, the last one first
RECURSIVE ApplyLastFirst(_, _)
ApplyLastFirst(doc, blocks) ==
    IF blocks = <<>> THEN doc
    ELSE apply_block(ApplyLastFirst(doc, Tail(blocks)), Head(blocks))

\* B_n(...B2(B1(doc))): the blocks applied to doc in the order they appear
RECURSIVE ApplyInOrder(_, _)
ApplyInOrder(doc, blocks) ==
    IF blocks = <<>> THEN doc
    ELSE ApplyInOrder(apply_block(doc, Head(blocks)), Tail(blocks))

\* the running results of the loop: at n, the running result when the loop
\* leaves block n, which is the one it has when it reaches block n - 1; the
\* loop starts from the document and leaves block 1 with the value the call
\* returns
RunningResults(blocks) ==
    [n \in 1..(Len(blocks) + 1) |->
        IF n = 1 THEN updated_full_html
        ELSE ApplyLastFirst(html, SubSeq(blocks, n, Len(blocks)))]

\* the blocks without block n
WithoutBlock(blocks, n) == SubSeq(blocks, 1, n - 1) \o SubSeq(blocks, n + 1, Len(blocks))

\* P(block n, running result before it, running result after it) for every block
ForEachBlock(P(_, _, _)) ==
    LET blocks == PatchBlocks
        running == RunningResults(blocks)
    IN \A n \in 1..Len(blocks) : P(n, running[n + 1], running[n])

\* C1: a patch text that contains no complete PatchBlock (empty, without the
\* search-begin marker, or with the marker but no divider and replace-end after
\* it in that order) leaves the document exactly as it was.
C1_NoBlockIsNoOp ==
    (patch_pc = "returned" /\ NoCompleteBlock(patch_instructions))
        => updated_full_html = html

\* C1 witness: a non-empty document, a patch text with the search-begin marker
\* and a divider but no complete block, and the call has returned
C1_Witness ==
    /\ patch_pc = "returned"
    /\ html # <<>>
    /\ contains(patch_instructions, <<SEARCH_START>>)
    /\ contains(patch_instructions, <<DIVIDER>>)
    /\ NoCompleteBlock(patch_instructions)

\* C2 as claimed: the blocks are applied in the order they appear, so the
\* result is Bn(...B2(B1(D))).
C2_AppliedInOrder ==
    patch_pc = "returned" =>
        LET blocks == PatchBlocks
        IN Len(blocks) >= 2 => updated_full_html = ApplyInOrder(html, blocks)

\* C2 amended: the blocks are applied in the reverse of the order in which they
\* appear (the last block first), so the result is B1(B2(...Bn(D))).
C2_AppliedLastFirst ==
    patch_pc = "returned" =>
        LET blocks == PatchBlocks
        IN Len(blocks) >= 2 => updated_full_html = ApplyLastFirst(html, blocks)

\* C2 witness: a returned call with several blocks whose result differs from
\* the one the order of appearance would give
C2_Witness ==
    /\ patch_pc = "returned"
    /\ Len(PatchBlocks) >= 2
    /\ updated_full_html # ApplyInOrder(html, PatchBlocks)

\* C3 as claimed: a block whose search text S is non-empty and occurs in the
\* running result replaces the leftmost occurrence of S only.
C3_FirstOccurrenceOnly ==
    patch_pc = "returned" =>
        LET blocks == PatchBlocks
            FirstOnly(n, before, after) ==
                (SearchOf(blocks[n]) # <<>> /\ contains(before, SearchOf(blocks[n])))
                    => FirstOccurrenceReplaced(before, SearchOf(blocks[n]),
                                               ReplaceOf(blocks[n]), after)
        IN ForEachBlock(FirstOnly)

\* C3 amended: a block whose search text S has a character that is not
\* whitespace and occurs in the running result replaces the leftmost occurrence
\* of S only, every other character staying as it was; the document
\* <div><h1>Old</h1></div> with search <h1>Old</h1> and replace <h1>New</h1>
\* becomes <div><h1>New</h1></div>.
C3_FirstOccurrenceOnlyNonBlank ==
    patch_pc = "returned" =>
        LET blocks == PatchBlocks
            FirstOnly(n, before, after) ==
                (~IsBlank(SearchOf(blocks[n])) /\ contains(before, SearchOf(blocks[n])))
                    => FirstOccurrenceReplaced(before, SearchOf(blocks[n]),
                                               ReplaceOf(blocks[n]), after)
        IN /\ ForEachBlock(FirstOnly)
           /\ (html = ScenarioDoc /\ patch_instructions = ScenarioPatch)
                 => updated_full_html = <<"<div>", "<h1>New</h1>", "</div>">>

\* C3 witness: one block whose search text occurs twice in the document, applied
C3_Witness ==
    /\ patch_pc = "returned"
    /\ Len(PatchBlocks) = 1
    /\ ~IsBlank(SearchOf(PatchBlocks[1]))
    /\ Cardinality(Occurrences(html, SearchOf(PatchBlocks[1]))) >= 2
    /\ updated_full_html # html

\* C4 as claimed: a block whose search text is not a substring of the running
\* result is skipped: the result is the one the other blocks alone give.
C4_UnmatchedSkipped ==
    patch_pc = "returned" =>
        LET blocks == PatchBlocks
            Skipped(n, before, after) ==
                ~contains(before, SearchOf(blocks[n]))
                    => /\ after = before
                       /\ updated_full_html = ApplyLastFirst(html, WithoutBlock(blocks, n))
        IN ForEachBlock(Skipped)

\* C4 amended: a block whose search text has a character that is not whitespace
\* and is not a substring of the running result is skipped: the running result
\* is unchanged by it and every other block is still applied.
C4_UnmatchedSkippedNonBlank ==
    patch_pc = "returned" =>
        LET blocks == PatchBlocks
            Skipped(n, before, after) ==
                (~IsBlank(SearchOf(blocks[n])) /\ ~contains(before, SearchOf(blocks[n])))
                    => /\ after = before
                       /\ updated_full_html = ApplyLastFirst(html, WithoutBlock(blocks, n))
        IN ForEachBlock(Skipped)

\* C4 witness: two blocks, the one applied first is not found and the other
\* one changes the document
C4_Witness ==
    /\ patch_pc = "returned"
    /\ Len(PatchBlocks) = 2
    /\ ~IsBlank(SearchOf(PatchBlocks[2]))
    /\ ~contains(html, SearchOf(PatchBlocks[2]))
    /\ updated_full_html # html

\* C5 as claimed: a block is an insertion (replace text, newline, running
\* result) exactly when its search text is the empty string.
C5_InsertionIffEmpty ==
    patch_pc = "returned" =>
        LET blocks == PatchBlocks
            Inserts(n, before, after) ==
                (after = ReplaceOf(blocks[n]) \o <<NL>> \o before)
                    <=> (SearchOf(blocks[n]) = <<>>)
        IN ForEachBlock(Inserts)

\* C5 amended: a block is an insertion (replace text, newline, running result)
\* exactly when its search text is empty or consists of whitespace only; a
\* search text with a character that is not whitespace never inserts.
C5_InsertionIffBlank ==
    patch_pc = "returned" =>
        LET blocks == PatchBlocks
            Inserts(n, before, after) ==
                (after = ReplaceOf(blocks[n]) \o <<NL>> \o before)
                    <=> IsBlank(SearchOf(blocks[n]))
        IN ForEachBlock(Inserts)

\* C5 witness: a block whose search text is one space has been applied as an insertion
C5_Witness ==
    /\ patch_pc = "returned"
    /\ Len(PatchBlocks) = 1
    /\ SearchOf(PatchBlocks[1]) = <<" ">>
    /\ updated_full_html = ReplaceOf(PatchBlocks[1]) \o <<NL>> \o html

\* the search text is no substring of doc, though it is one once whitespace is ignored
DiffersInWhitespaceOnly(doc, s) ==
    /\ ~contains(doc, s)
    /\ \E i \in 1..(Len(doc) + 1), j \in 0..Len(doc) :
           Squeeze(SubSeq(doc, i, j)) = Squeeze(s)

\* C6 as claimed: a search text that differs from every substring of the
\* document in whitespace does not match, and the block leaves the document unchanged.
C6_WhitespaceExact ==
    patch_pc = "returned" =>
        LET blocks == PatchBlocks
            Exact(n, before, after) ==
                DiffersInWhitespaceOnly(before, SearchOf(blocks[n])) => after = before
        IN ForEachBlock(Exact)

\* C6 amended: a search text with a character that is not whitespace, and that
\* differs from every substring of the document in whitespace, does not match,
\* and the block leaves the document unchanged.
C6_WhitespaceExactNonBlank ==
    patch_pc = "returned" =>
        LET blocks == PatchBlocks
            Exact(n, before, after) ==
                (/\ ~IsBlank(SearchOf(blocks[n]))
                 /\ DiffersInWhitespaceOnly(before, SearchOf(blocks[n])))
                    => after = before
        IN ForEachBlock(Exact)

\* C6 witness: the search text "a " against a document that has "a" but not "a "
C6_Witness ==
    /\ patch_pc = "returned"
    /\ Len(PatchBlocks) = 1
    /\ SearchOf(PatchBlocks[1]) = <<"a", " ">>
    /\ ReplaceOf(PatchBlocks[1]) # <<>>
    /\ contains(html, <<"a">>)
    /\ DiffersInWhitespaceOnly(html, SearchOf(PatchBlocks[1]))

\* a single block whose search text is non-empty, occurs exactly once in the
\* document and not at all in the patched document
OnceAndGone ==
    LET blocks == PatchBlocks
    IN /\ Len(blocks) = 1
       /\ SearchOf(blocks[1]) # <<>>
       /\ Cardinality(Occurrences(html, SearchOf(blocks[1]))) = 1
       /\ ~contains(updated_full_html, SearchOf(blocks[1]))

\* C7: a single block (S, R), S non-empty and occurring exactly once in D and
\* not at all in the patched document: the same patch applied to the patched
\* document changes nothing.
C7_SecondApplicationNoOp ==
    (patch_pc = "reapplied" /\ OnceAndGone) => repatched_full_html = updated_full_html

\* C7 witness: such a patch, with a replace text, applied twice
C7_Witness ==
    /\ patch_pc = "reapplied"
    /\ OnceAndGone
    /\ ReplaceOf(PatchBlocks[1]) # <<>>
    /\ updated_full_html # html

-----------------------------------------------------------------------------
(* Claims about isolate_and_clean_html, checked under SpecIsolate and Spec *)

\* the spellings of the markers, in either case
DoctypeForms == {"<!DOCTYPE html>", "<!doctype html>"}
HtmlTagForms == {"<html", "<HTML", "<html>"}
FallbackForms ==
    {"<div", "<DIV", "<section", "<SECTION", "<header", "<HEADER",
     "<main", "<MAIN", "<body", "<BODY", "<div>", "<div id=\"c1\">", "<body>"}

HasDoctype(text) == \E i \in 1..Len(text) : text[i] \in DoctypeForms
HasAnyMarker(text) ==
    \E i \in 1..Len(text) : text[i] \in DoctypeForms \cup HtmlTagForms \cup FallbackForms

\* C8: when the text holds a document-type declaration, in whatever case, the
\* result is the text from the earliest declaration to the end, also when an
\* html tag or another tag stands before it.
C8_FromEarliestDoctype ==
    isolate_pc # "call" =>
        \A i \in 1..Len(raw_text) :
            (/\ raw_text[i] \in DoctypeForms
             /\ \A j \in 1..(i - 1) : raw_text[j] \notin DoctypeForms)
                => isolated_html = SubSeq(raw_text, i, Len(raw_text))

\* C8 witness: an html tag stands before the first declaration, which is in
\* lower case, and the call has returned
C8_Witness ==
    /\ isolate_pc = "returned"
    /\ \E i, j \in 1..Len(raw_text) :
           /\ i < j
           /\ raw_text[i] \in HtmlTagForms
           /\ raw_text[j] = "<!doctype html>"
           /\ \A k \in 1..(j - 1) : raw_text[k] \notin DoctypeForms

\* C9 as claimed: an oracle text without a document-type declaration isolates
\* to the empty text, and the build request ends with an error and no bundle.
C9_NoDoctypeIsEmpty ==
    (/\ request.endpoint = "POST /api/ask-ai"
     /\ oracle = "answered"
     /\ ~HasDoctype(ai_response_text))
        => (clean_html_doc = <<>> /\ response.status = 500 /\ ~response.bundle)

\* C9 amended: an oracle text with no marker at all (no document-type
\* declaration, no html tag, none of the tags div, section, header, main, body)
\* isolates to the empty text, and the build request ends with the error 500
\* and no bundle.
C9_NoMarkerIsEmpty ==
    (/\ request.endpoint = "POST /api/ask-ai"
     /\ oracle = "answered"
     /\ ~HasAnyMarker(ai_response_text))
        => (clean_html_doc = <<>> /\ response.status = 500 /\ ~response.bundle)

\* C9 witness: the oracle answered a build request with a text that has no marker
C9_Witness ==
    /\ request.endpoint = "POST /api/ask-ai"
    /\ oracle = "answered"
    /\ ai_response_text # <<>>
    /\ ~HasAnyMarker(ai_response_text)
    /\ response.status = 500

\* C10: isolating the output of an isolation gives that output again, whichever
\* marker the first isolation used.
C10_IsolateIdempotent ==
    isolate_pc = "reisolated" => reisolated_html = isolated_html

\* C10 witness: a text without declaration and html tag, cut at a fallback tag,
\* and isolated again
C10_Witness ==
    /\ isolate_pc = "reisolated"
    /\ ~HasDoctype(raw_text)
    /\ \A i \in 1..Len(raw_text) : raw_text[i] \notin HtmlTagForms
    /\ isolated_html # <<>>
    /\ isolated_html # raw_text

\* the markdown fence: its opening line and its closing line, three backticks
\* in the oracle's text, written here with tildes
FenceOpen == "~~~html"
FenceClose == "~~~"

\* the fences of a text: the positions of an opening line and of the first
\* closing line after it
Fences(text) ==
    {oc \in (1..Len(text)) \X (1..Len(text)) :
        /\ oc[1] < oc[2]
        /\ text[oc[1]] = FenceOpen
        /\ text[oc[2]] = FenceClose
        /\ \A k \in (oc[1] + 1)..(oc[2] - 1) : text[k] # FenceClose}

\* the fences whose interior holds a marker
MarkedFences(text) ==
    {oc \in Fences(text) : HasAnyMarker(SubSeq(text, oc[1] + 1, oc[2] - 1))}

\* whether part is a run of consecutive symbols of whole
IsPartOf(part, whole) ==
    \E i \in 1..(Len(whole) + 1) : \E j \in (i - 1)..Len(whole) : part = SubSeq(whole, i, j)

\* the position isolation starts from: the first declaration, else the first
\* html tag, else the first fallback tag
FirstOf(text, forms) == Min({i \in 1..Len(text) : text[i] \in forms})
MarkerPosition(text) ==
    IF \E i \in 1..Len(text) : text[i] \in DoctypeForms THEN FirstOf(text, DoctypeForms)
    ELSE IF \E i \in 1..Len(text) : text[i] \in HtmlTagForms THEN FirstOf(text, HtmlTagForms)
    ELSE FirstOf(text, FallbackForms)

\* C11 as claimed: when the text holds a fence whose interior holds a marker,
\* the result is part of that interior: it holds neither the closing line of
\* the fence nor the text after it.
C11_FenceInteriorOnly ==
    isolate_pc # "call" =>
        \A oc \in MarkedFences(raw_text) :
            IsPartOf(isolated_html, SubSeq(raw_text, oc[1] + 1, oc[2] - 1))

\* C11 amended: fences are not recognised.  When the text holds a fence whose
\* interior holds a marker, the result runs from the marker isolation starts
\* from to the end of the text: the closing line of a fence after that marker
\* and all the text after it are part of the result.
C11_FenceNotRecognised ==
    isolate_pc # "call" =>
        \A oc \in MarkedFences(raw_text) :
            /\ isolated_html = SubSeq(raw_text, MarkerPosition(raw_text), Len(raw_text))
            /\ MarkerPosition(raw_text) < oc[2] =>
                  \E k \in 1..Len(isolated_html) :
                      /\ isolated_html[k] = FenceClose
                      /\ SubSeq(isolated_html, k + 1, Len(isolated_html))
                            = SubSeq(raw_text, oc[2] + 1, Len(raw_text))

\* C11 witness: narration, a fenced page, narration after the fence, isolated
C11_Witness ==
    /\ isolate_pc = "returned"
    /\ \E oc \in MarkedFences(raw_text) :
           /\ oc[1] > 1
           /\ oc[2] < Len(raw_text)
           /\ HasDoctype(SubSeq(raw_text, oc[1] + 1, oc[2] - 1))

-----------------------------------------------------------------------------
(* Claims about extract_assets, checked under SpecAssets *)

\* the start tags of the style and script elements
StyleStarts == {"<style>"}
ScriptStarts == {"<script>", "<script src=\"a.js\">"}
ExternalScriptStart == "<script src=\"a.js\">"
CommentSymbols == {"<!--c-->"}

\* the call has returned and its parse has not raised
Extracted == assets_pc = "returned" /\ ~parse_raises

\* the tree of the document passed to the call, and its first body element
DocumentTree == BeautifulSoup(full_html)
HasBody == find_all(DocumentTree, {"body"}) # <<>>
BodyChildren == find_all(DocumentTree, {"body"})[1].children

\* the elements of a list of nodes and of their descendants that have one of the names
ElementsNamed(nodes, names) ==
    SelectSeq(descendants(nodes), LAMBDA n : n.kind = "tag" /\ name_of(n) \in names)

\* the text inside an element of character data
TextOf(element) ==
    Concat([k \in 1..Len(element.children) |-> element.children[k].text])

HasSrc(element) == token(element.sym).src # ""

\* the symbols of text without the white space at its two ends
Trimmed(text) ==
    LET inner == {i \in 1..Len(text) : text[i] \notin WHITESPACE}
    IN IF inner = {} THEN <<>> ELSE SubSeq(text, Min(inner), Max(inner))

\* the texts, one after the other, with a line break between two of them
RECURSIVE JoinedByNewlines(_)
JoinedByNewlines(texts) ==
    IF texts = <<>> THEN <<>>
    ELSE IF Len(texts) = 1 THEN texts[1]
    ELSE texts[1] \o <<NL>> \o JoinedByNewlines(Tail(texts))

TextsOf(elements) == [k \in 1..Len(elements) |-> TextOf(elements[k])]

\* C12: the fragment holds no style element and no script element, whether the
\* document has a body or not.
C12_NoStyleNoScript ==
    Extracted =>
        \A k \in 1..Len(assets.body_html) :
            assets.body_html[k] \notin StyleStarts \cup ScriptStarts

\* C13 as claimed: the style payload is the text of every style element, in
\* order, joined by newlines; the script payload is the text of every script
\* element with text and without src, in order, joined by newlines.
C13_PayloadsJoined ==
    Extracted =>
        /\ assets.css = JoinedByNewlines(TextsOf(ElementsNamed(DocumentTree, {"style"})))
        /\ assets.js =
              JoinedByNewlines(TextsOf(
                  SelectSeq(ElementsNamed(DocumentTree, {"script"}),
                            LAMBDA e : TextOf(e) # <<>> /\ ~HasSrc(e))))

\* C13 amended: the style payload is the text of every style element that has
\* text, in order, joined by newlines, without the white space at the two
\* ends of the whole; the script payload likewise, of every script element with
\* text and without src.  When nothing is collected the payload is the empty text.
C13_PayloadsJoinedTrimmed ==
    Extracted =>
        /\ assets.css =
              Trimmed(JoinedByNewlines(TextsOf(
                  SelectSeq(ElementsNamed(DocumentTree, {"style"}),
                            LAMBDA e : TextOf(e) # <<>>))))
        /\ assets.js =
              Trimmed(JoinedByNewlines(TextsOf(
                  SelectSeq(ElementsNamed(DocumentTree, {"script"}),
                            LAMBDA e : TextOf(e) # <<>> /\ ~HasSrc(e)))))

\* C13 witness: two style elements with different texts, one of them with white
\* space at its start, and a payload that holds both
C13_Witness ==
    /\ Extracted
    /\ \E i, j \in 1..Len(assets.css) :
           i < j /\ assets.css[i] = ".b{}" /\ assets.css[j] = ".a{color:red}"
    /\ \E e \in {ElementsNamed(DocumentTree, {"style"})[k] :
                     k \in 1..Len(ElementsNamed(DocumentTree, {"style"}))} :
           TextOf(e) # <<>> /\ TextOf(e)[1] \in WHITESPACE

\* the body holds a script element with a src and without text
ExternalOnlyInBody ==
    /\ HasBody
    /\ \E k \in 1..Len(ElementsNamed(BodyChildren, {"script"})) :
           LET e == ElementsNamed(BodyChildren, {"script"})[k]
           IN HasSrc(e) /\ e.children = <<>>

\* the payload holds nothing but the texts of script elements without src
OnlyInlineScriptText ==
    \A k \in 1..Len(assets.js) :
        \/ assets.js[k] = NL
        \/ \E j \in 1..Len(ElementsNamed(DocumentTree, {"script"})) :
               LET e == ElementsNamed(DocumentTree, {"script"})[j]
               IN ~HasSrc(e) /\ \E i \in 1..Len(TextOf(e)) : TextOf(e)[i] = assets.js[k]

\* C14 as claimed: a script element of the body that has a src and no text adds
\* nothing to the script payload and is still in the fragment, start tag and
\* end tag.
C14_ExternalScriptUntouched ==
    (Extracted /\ ExternalOnlyInBody) =>
        /\ OnlyInlineScriptText
        /\ contains(assets.body_html, <<ExternalScriptStart, "</script>">>)

\* C14 amended: a script element of the body that has a src and no text adds
\* nothing to the script payload and is taken out of the fragment, as every
\* script element is: it reaches the caller in neither of the two.
C14_ExternalScriptRemoved ==
    (Extracted /\ ExternalOnlyInBody) =>
        /\ OnlyInlineScriptText
        /\ \A k \in 1..Len(assets.body_html) : assets.body_html[k] # ExternalScriptStart

\* C14 witness: such a script element beside a heading that stays in the fragment
C14_Witness ==
    /\ Extracted
    /\ ExternalOnlyInBody
    /\ contains(assets.body_html, <<"<h1>", "Hi", "</h1>">>)

\* the children of the body that are neither comments, nor style or script
\* elements, nor white space
MeaningfulChildren ==
    SelectSeq(BodyChildren, LAMBDA n :
        /\ n.kind # "comment"
        /\ ~(n.kind = "tag" /\ name_of(n) \in {"style", "script"})
        /\ ~(n.kind = "text" /\ IsBlank(n.text)))

\* the body's only meaningful child is the container element of the given id
SoleContainer ==
    /\ HasBody
    /\ Len(MeaningfulChildren) = 1
    /\ MeaningfulChildren[1].kind = "tag"
    /\ token(MeaningfulChildren[1].sym).id = assets_container_id

\* what is left of a list of nodes, written out
Remaining(nodes) ==
    Trimmed(decode(without_tags(without_comments(nodes), {"style", "script"})))

\* C15 as claimed: when the body's only meaningful child is the container
\* element of the given id, the fragment is what the container holds, without
\* the container's own tags; otherwise it is all that is left of the body.
C15_ContainerUnwrapped ==
    (Extracted /\ HasBody) =>
        assets.body_html = IF SoleContainer
                           THEN Remaining(MeaningfulChildren[1].children)
                           ELSE Remaining(BodyChildren)

\* C15 amended: the container id has no effect.  The fragment of a document
\* with a body is all that is left of the body, and a container element that is
\* the body's only meaningful child is in it with its own tags.
C15_WholeBodyAlways ==
    (Extracted /\ HasBody) =>
        /\ assets.body_html = Remaining(BodyChildren)
        /\ SoleContainer => /\ assets.body_html # <<>>
                             /\ assets.body_html[1] = MeaningfulChildren[1].sym

\* C15 witness: a body whose only child is the container of the given id, with
\* a heading in it
C15_Witness ==
    /\ Extracted
    /\ SoleContainer
    /\ assets_container_id = "c1"
    /\ contains(full_html, <<"<div id=\"c1\">", "<h1>">>)

\* the texts that stand outside any tag in a piece of markup, white space left out
StrayText(nodes) ==
    Squeeze(Concat([k \in 1..Len(nodes) |->
                       IF nodes[k].kind = "text" THEN nodes[k].text ELSE <<>>]))

HasComment(text) == \E k \in 1..Len(text) : text[k] \in CommentSymbols

C17_ExceptionReturnsRaw ==
    (assets_pc = "returned" /\ parse_raises) =>
        (assets.body_html = full_html /\ assets.css = <<>> /\ assets.js = <<>>)

\* C17 witness: the parse of a document with a style element and white space
\* at its start raised, and the call returned
C17_Witness ==
    /\ assets_pc = "returned"
    /\ parse_raises
    /\ full_html # <<>>
    /\ full_html[1] \in WHITESPACE
    /\ \E k \in 1..Len(full_html) : full_html[k] \in StyleStarts

-----------------------------------------------------------------------------
(* Claims about the endpoints of main.py, checked under Spec *)

\* a build request that ended with a bundle
BuildSucceeded == request.endpoint = "POST /api/ask-ai" /\ response.bundle

\* a rewrite request that ended with a bundle
RewriteSucceeded == request.endpoint = "PUT /api/rewrite-element" /\ response.bundle

\* the text of the style elements of a document, as C13 describes it
StylePayloadOf(doc) ==
    Trimmed(JoinedByNewlines(TextsOf(
        SelectSeq(ElementsNamed(BeautifulSoup(doc), {"style"}),
                  LAMBDA e : TextOf(e) # <<>>))))

\* a style text with every rule prefixed by '#', the container id and a space
ScopedTo(css, id) ==
    Concat([k \in 1..Len(css) |->
               IF css[k] \in WHITESPACE THEN <<css[k]>> ELSE <<"#", id, " ", css[k]>>])

\* C18 as claimed: the css of the bundle of a build is the style text of the
\* document with every rule prefixed by the selector of the bundle's container.
C18_CssScoped ==
    BuildSucceeded =>
        response.css = ScopedTo(StylePayloadOf(clean_html_doc), response.container_id)

\* C18 amended: the css of the bundle of a build is the style text of the
\* document as it stands there, no rule prefixed; the container id the build
\* has drawn stands beside it.  The scenario's page gives the fragment
\* <h1>Hi</h1>, the css .a{color:red} and an empty js.
C18_CssNotScoped ==
    BuildSucceeded =>
        /\ response.css = StylePayloadOf(clean_html_doc)
        /\ response.container_id \in {new_container_id(hex) : hex \in UuidHex}
        /\ clean_html_doc = ScenarioPage =>
              /\ response.html = <<"<h1>", "Hi", "</h1>">>
              /\ response.css = <<".a{color:red}">>
              /\ response.js = <<>>

\* C18 witness: a build of the scenario's page has ended with a bundle
C18_Witness ==
    /\ BuildSucceeded
    /\ clean_html_doc = ScenarioPage
    /\ response.css # <<>>

\* the start tags that carry the marker attribute
MarkedStarts ==
    {"<h1 data-neuro-edit-target=\"true\">", "<div data-neuro-edit-target=\"true\">"}

HasMarker(text) == \E k \in 1..Len(text) : text[k] \in MarkedStarts

\* C19: the html of a successful rewrite never holds the marker attribute,
\* whatever the oracle has answered.
C19_MarkerNeverReturned ==
    RewriteSucceeded => ~HasMarker(response.html)

\* the selected element as bs4 writes it
SelectedElementText ==
    LET tags == SelectSeq(descendants(BeautifulSoup(request.selectedElementHtml)),
                          LAMBDA n : n.kind = "tag")
    IN IF tags = <<>> THEN <<>> ELSE decode(<<tags[1]>>)

\* a rewrite request that passed the rate limit and the checks of its fields,
\* for an element that the document does not hold
TargetNotFound ==
    /\ request.endpoint = "PUT /api/rewrite-element"
    /\ response.status \notin {429, 400}
    /\ SelectedElementText # <<>>
    /\ Occurrences(request.html, SelectedElementText) = {}

-----------------------------------------------------------------------------
(* Claims about patch_html, checked under SpecElement *)

PatchHandled ==
    element_request.endpoint = "POST /patch-html" /\ element_response # NoElementResponse

\* the page of a patch as line 2202 wraps it
WrappedPage == <<"<body>">> \o element_request.html \o <<"</body>">>

\* the positions of the start tags that a selector names
SelectorHits(text, selector) ==
    {i \in 1..Len(text) :
        /\ token(text[i]).kind = "open"
        /\ IF selector = "#c1" THEN token(text[i]).id = "c1"
           ELSE token(text[i]).name = selector}

\* the position at which the element that is open at j - 1, depth elements
\* deep, is closed
RECURSIVE ElementEnd(_, _, _)
ElementEnd(text, j, depth) ==
    IF j > Len(text) THEN Len(text)
    ELSE LET kind == token(text[j]).kind
             d == IF kind = "open" THEN depth + 1
                  ELSE IF kind = "close" THEN depth - 1 ELSE depth
         IN IF d <= 0 THEN j ELSE ElementEnd(text, j + 1, d)

\* the end of the run of character data that starts at j
RECURSIVE TextEnd(_, _)
TextEnd(text, j) ==
    IF j < Len(text) /\ token(text[j + 1]).kind = "text" THEN TextEnd(text, j + 1) ELSE j

\* the text of the first top-level node of a snippet: an element with all it
\* holds, a comment, or a run of character data; nothing for a lone end tag
FirstNodeText(snippet) ==
    IF snippet = <<>> THEN <<>>
    ELSE LET kind == token(snippet[1]).kind
         IN CASE kind = "open" -> SubSeq(snippet, 1, ElementEnd(snippet, 1, 0))
              [] kind = "text" -> SubSeq(snippet, 1, TextEnd(snippet, 1))
              [] kind = "close" -> <<>>
              [] OTHER -> <<snippet[1]>>

\* the text with the element that starts at position i replaced
Spliced(text, i, replacement) ==
    SubSeq(text, 1, i - 1) \o replacement \o SubSeq(text, ElementEnd(text, i, 0) + 1, Len(text))

\* the contents of the body element when the text is one, else the text
BodyContents(text) ==
    IF text # <<>> /\ text[1] = "<body>" /\ text[Len(text)] = "</body>"
    THEN SubSeq(text, 2, Len(text) - 1)
    ELSE text

TargetFound == SelectorHits(WrappedPage, element_request.selector) # {}

TargetStart == Min(SelectorHits(WrappedPage, element_request.selector))

\* C21 as claimed: when the selector matches, the first matching element and
\* all it holds is replaced by the whole new snippet, and the rest of the page
\* is returned as it was.
C21_WholeSnippetReplaces ==
    (PatchHandled /\ TargetFound /\ element_response.status = 200)
        => element_response.html =
               BodyContents(Spliced(WrappedPage, TargetStart, element_request.snippet))

\* whether the first top-level node of a snippet is an element
FirstNodeIsElement(snippet) == snippet # <<>> /\ token(snippet[1]).kind = "open"

\* C21 as the code has it: when the selector matches and the snippet starts
\* with an element, the first matching element and all it holds is replaced by
\* that first element of the snippet alone, and the rest of the page is
\* returned as it was, in the same order.
C21_FirstNodeReplaces ==
    (PatchHandled /\ TargetFound /\ FirstNodeIsElement(element_request.snippet))
        => /\ element_response.status = 200
           /\ element_response.html =
                  BodyContents(Spliced(WrappedPage, TargetStart,
                                       FirstNodeText(element_request.snippet)))

\* a page with two headings, the first of them inside a container with text
\* after it, patched with a snippet of two elements
C21_Witness ==
    /\ PatchHandled
    /\ element_request.html =
          <<"<div id=\"c1\">", "<h1>", "In", "</h1>", "b", "</div>", "<h1>", "Hi", "</h1>">>
    /\ element_request.selector = "h1"
    /\ element_request.snippet = <<"<h1>", "New", "</h1>", "<div>", "more", "</div>">>
    /\ element_response.html =
          <<"<div id=\"c1\">", "<h1>", "New", "</h1>", "b", "</div>", "<h1>", "Hi", "</h1>">>

\* whether a snippet is empty or starts with white space or plain text
StartsWithText(snippet) == snippet = <<>> \/ token(snippet[1]).kind = "text"

\* C22: a patch whose new snippet is empty, white space only, or starts with
\* white space or plain text fails; no page is returned in which the target is
\* gone and no element stands in its place.
C22_UnusableSnippetFails ==
    (PatchHandled /\ TargetFound /\ StartsWithText(element_request.snippet))
        => element_response.status # 200

\* C23: patch_html answers a selector without match with the status 404 and an
\* empty new snippet with the status 400, both different from the status 500
\* of an unexpected failure.
C23_FailureKindsDistinguished ==
    PatchHandled
        => /\ ~TargetFound => element_response.status = 404
           /\ (TargetFound /\ strip(element_request.snippet, WHITESPACE) = <<>>)
                  => element_response.status = 400

-----------------------------------------------------------------------------
(* Claims about the endpoints of main.py, checked under Spec *)

UpdateSucceeded == request.endpoint = "PUT /api/ask-ai" /\ response.bundle

\* the text between the body tags of a document, the document when it has none
BodyContentOf(doc) ==
    LET opens == {i \in 1..Len(doc) : doc[i] = "<body>"}
        closes == {i \in 1..Len(doc) : doc[i] = "</body>"}
    IN IF opens = {} \/ closes = {} THEN doc
       ELSE SubSeq(doc, Min(opens) + 1, Max(closes) - 1)

\* the oracle's patch leaves the submitted document as it is
PatchChangesNothing == apply_diff_patch(request.html, ai_response_text) = request.html

\* C24: an update whose patch changes nothing returns the page unchanged: the
\* html, css and js of the response are the body content of the html, the css
\* and the js that the request submitted.
C24_NoChangeReturnsSubmitted ==
    (UpdateSucceeded /\ PatchChangesNothing)
        => /\ response.html = BodyContentOf(request.html)
           /\ response.css = request.css
           /\ response.js = request.js

\* the container ids a build generates
GeneratedIds == {"neuroarti-container-0a1b2c3d", "neuroarti-container-4e5f6a7b"}

\* C25 as claimed: every successful edit, update or rewrite, answers with the
\* container id that its request supplied, and the splitter is called with it.
C25_ContainerIdThreaded ==
    (UpdateSucceeded \/ RewriteSucceeded)
        => /\ response.container_id # ""
           /\ response.container_id = request.container_id
           /\ split_container_id # "" => split_container_id = request.container_id

\* C25 as the code has it: a build generates the id, passes it to the splitter
\* and returns it; an update returns the id of its request and passes it to
\* the splitter when it calls it; a rewrite is sent no id, passes the fixed
\* text some-id to the splitter and returns no id.
C25_ContainerIdOfBuildAndUpdate ==
    /\ BuildSucceeded
          => /\ response.container_id \in GeneratedIds
             /\ split_container_id = response.container_id
    /\ UpdateSucceeded
          => /\ request.container_id \in GeneratedIds
             /\ response.container_id = request.container_id
             /\ split_container_id \in {"", request.container_id}
    /\ RewriteSucceeded
          => /\ request.container_id = ""
             /\ response.container_id = ""
             /\ split_container_id = "some-id"

\* an update whose patch was applied: the splitter was called with the id of
\* the request, and the response carries it
C25_Witness ==
    /\ UpdateSucceeded
    /\ ~PatchChangesNothing
    /\ split_container_id = request.container_id
    /\ response.container_id = "neuroarti-container-0a1b2c3d"

\* what the oracle did for the request: its answer, or the status of its failure
OracleAnswerOf ==
    IF oracle = "failed" THEN <<oracle, response.status>> ELSE <<oracle, ai_response_text>>

\* the response without the id that a build draws at random
WithoutGeneratedId(r) ==
    IF request.endpoint = "POST /api/ask-ai" THEN [r EXCEPT !.container_id = ""] ELSE r

\* the request just handled is the one handled before it, and the oracle did
\* the same for both
SameRequestAgain ==
    /\ request # NoRequest
    /\ request' = request
    /\ OracleAnswerOf' = OracleAnswerOf

KnownModels == {"glm-4.5-air", "gemini-2.5-flash-lite", "deepseek-r1"}

RewriteRequested == request.endpoint = "PUT /api/rewrite-element"

\* the request is one that the handler has to turn down: it is over the rate
\* limit, names an unknown model, lacks a field that its endpoint requires
\* (html for an update, html and selectedElementHtml for a rewrite), or names
\* a selected element that the full html does not hold
Refused ==
    \/ request.ip # NoIp /\ ip_address_map[request.ip] > 100
    \/ request.model \notin KnownModels
    \/ request.endpoint = "PUT /api/ask-ai" /\ request.html = <<>>
    \/ RewriteRequested /\ (request.html = <<>> \/ request.selectedElementHtml = <<>>)
    \/ /\ RewriteRequested
       /\ SelectedElementText # <<>>
       /\ Occurrences(request.html, SelectedElementText) = {}

\* C28: the oracle is called for a request only after the rate limit admitted
\* it and its model key and required fields were validated: a request that is
\* to be turned down ends with an error, and the oracle was not called for it.
C28_NoOracleCallForRefused ==
    (request # NoRequest /\ Refused)
        => /\ oracle = "not called"
           /\ ai_response_text = <<>>
           /\ ~response.ok
           /\ response.status \in {429, 400, 500}

\* an update without html, of an admitted client and with a known model, is
\* answered with the error 400 and no oracle call
C28_Witness ==
    /\ request.endpoint = "PUT /api/ask-ai"
    /\ request.html = <<>>
    /\ request.model \in KnownModels
    /\ response.status = 400
    /\ oracle = "not called"

-----------------------------------------------------------------------------
(* Claims about ip_limiter, checked under SpecLimiter *)

\* C27: a call with an IP is admitted exactly when it is one of the first
\* MAX_REQUESTS_PER_IP calls made with that IP, whatever calls were made with
\* another IP or with none in between; the count kept for an IP is the number
\* of all calls made with it, the rejected ones too, so it never decreases or
\* starts again; a call with no IP is always admitted.
C27_FirstCallsAdmitted ==
    /\ limiter_ip = NoIp => admitted
    /\ limiter_ip # NoIp => (admitted <=> limiter_calls[limiter_ip] <= 100)
    /\ \A ip \in LimiterIPs : ip_address_map[ip] = limiter_calls[ip]

\* the 101st call of one client is rejected after the other client made calls
\* of its own, all of them admitted
C27_Witness ==
    /\ limiter_ip = "10.0.0.1"
    /\ limiter_calls["10.0.0.1"] = 101
    /\ limiter_calls["10.0.0.2"] = 3
    /\ ~admitted

-----------------------------------------------------------------------------
(* Claims about the snippet edits, checked under SpecElement *)

SnippetEdited ==
    element_request.endpoint = "POST /edit-snippet" /\ element_response.status = 200

ElementRewritten ==
    element_request.endpoint = "rewrite_element" /\ element_response.status = 200

\* the symbols that hold the character <, and those that hold >
WithLessThan == {"a<b", "<h1>", "</h1>", "<div>", "</div>"}
WithGreaterThan == {"a>b", "<h1>", "</h1>", "<div>", "</div>"}

\* the cleaned answer does not look like html: it is empty or lacks one of the
\* characters < and >
Unusable(text) ==
    \/ text = <<>>
    \/ \A k \in 1..Len(text) : text[k] \notin WithLessThan
    \/ \A k \in 1..Len(text) : text[k] \notin WithGreaterThan

\* C29: when the cleaned answer of the oracle is empty or lacks one of < and >,
\* create_edit_snippet returns the snippet of the request unchanged; when the
\* cleaning of rewrite_element yields the empty text, rewrite_element returns
\* the selected element unchanged.
C29_OriginalKeptWhenUnusable ==
    /\ (SnippetEdited /\ Unusable(element_cleaned))
          => element_response.snippet = element_request.snippet
    /\ (ElementRewritten /\ element_cleaned = <<>>)
          => element_response.snippet = element_request.snippet

\* the oracle answered a snippet edit with text that holds < but no >, and the
\* snippet of the request came back
C29_Witness ==
    /\ SnippetEdited
    /\ element_cleaned = <<"a<b">>
    /\ element_response.snippet = <<"<h1>", "Hi", "</h1>">>

-----------------------------------------------------------------------------
(* The result of isolate_and_clean_html as a part of its input, checked under
   SpecIsolate *)

\* the spellings of the marker isolation matches in a text: the declaration
\* when there is one, else the html tag, else the fallback tags
MatchedForms(text) ==
    IF HasDoctype(text) THEN DoctypeForms
    ELSE IF \E i \in 1..Len(text) : text[i] \in HtmlTagForms THEN HtmlTagForms
    ELSE FallbackForms

\* C30: the result of isolate_and_clean_html is the empty text or a suffix of
\* its input that begins with the matched marker (the document-type
\* declaration, else the html tag, else one of the tags div, section, header,
\* main, body); the symbols of the retained part are those of the input, in
\* their order.
C30_EmptyOrMarkedSuffix ==
    isolate_pc # "call" =>
        \/ isolated_html = <<>>
        \/ \E k \in 1..Len(raw_text) :
              /\ raw_text[k] \in MatchedForms(raw_text)
              /\ Len(isolated_html) = Len(raw_text) - k + 1
              /\ \A n \in 1..Len(isolated_html) : isolated_html[n] = raw_text[k + n - 1]

\* C30 witness: a text that starts with a fallback tag and holds an html tag
\* later was cut at the html tag
C30_Witness ==
    /\ isolate_pc = "returned"
    /\ raw_text # <<>>
    /\ raw_text[1] \in FallbackForms
    /\ isolated_html # <<>>
    /\ isolated_html[1] \in HtmlTagForms
    /\ Len(isolated_html) < Len(raw_text)

=============================================================================
